---- MODULE Spec2Model ----
(***************************************************************************)
(* A model of the FinWise personal finance dashboard: the tax engine of    *)
(* utils/tax_utils.py, the net worth of finwise/utils/finance_utils.py,    *)
(* the login of utils/auth_utils.py and the accessors of                   *)
(* database/operations.py they read and write.                             *)
(*                                                                         *)
(* Amounts are whole rupees.  The code computes in binary floating point;  *)
(* the model computes in integers, and every input set below is chosen so  *)
(* that each product and quotient the code forms is a whole number of      *)
(* rupees (amounts fed to the slabs are multiples of Rs 50,000), so the    *)
(* model's value is the exact real value of the code's expression.         *)
(***************************************************************************)
EXTENDS Integers, Sequences, FiniteSets, TLC

VARIABLES
    db,       \* the database: one set of rows per table, and the id counters
    session,  \* st.session_state: user_id, username, is_authenticated, authentication_status
    call      \* the last operation run: its name, its arguments and what it returned

vars == <<db, session, call>>

\* Python's None / SQL NULL.  A value that may be None is None or Some(v); a
\* date, already a tuple, is held as it is.
None == << >>
Some(v) == <<v>>

Min(a, b) == IF a <= b THEN a ELSE b
Max(a, b) == IF a >= b THEN a ELSE b
Abs(a) == IF a >= 0 THEN a ELSE 0 - a

\* x * (pct / 100) for a rate given in percent.  Exact whenever x is a multiple
\* of 25 and (x / 25) * pct is a multiple of 4, which holds for every amount
\* the model feeds it; dividing first keeps the product inside TLC's integers.
PercentOf(x, pct) == ((x \div 25) * pct) \div 4

RECURSIVE SumSeq(_)
SumSeq(s) == IF s = << >> THEN 0 ELSE Head(s) + SumSeq(Tail(s))

\* sum(d.values()) of a dictionary d, modelled as a function; also the sum of
\* an expression over the rows of a query, as SumValues([r \in rows |-> e]).
RECURSIVE SumValues(_)
SumValues(d) ==
    IF DOMAIN d = {} THEN 0
    ELSE LET k == CHOOSE x \in DOMAIN d : TRUE
         IN d[k] + SumValues([x \in DOMAIN d \ {k} |-> d[x]])

(***************************************************************************)
(* config.py                                                               *)
(***************************************************************************)

\* float('inf'): only ever compared and passed to min(), never added to.
Inf == 2147483647

\* Rates are in percent: 5 stands for 0.05.
OLD_REGIME_SLABS ==
    << [limit |-> 250000,  rate |-> 0],
       [limit |-> 500000,  rate |-> 5],
       [limit |-> 750000,  rate |-> 10],
       [limit |-> 1000000, rate |-> 15],
       [limit |-> 1250000, rate |-> 20],
       [limit |-> 1500000, rate |-> 25],
       [limit |-> Inf,     rate |-> 30] >>

NEW_REGIME_SLABS ==
    << [limit |-> 300000,  rate |-> 0],
       [limit |-> 600000,  rate |-> 5],
       [limit |-> 900000,  rate |-> 10],
       [limit |-> 1200000, rate |-> 15],
       [limit |-> 1500000, rate |-> 20],
       [limit |-> Inf,     rate |-> 30] >>

SURCHARGE_SLABS ==
    << [limit |-> 5000000,  rate |-> 0],
       [limit |-> 10000000, rate |-> 10],
       [limit |-> 20000000, rate |-> 15],
       [limit |-> 50000000, rate |-> 25],
       [limit |-> Inf,      rate |-> 37] >>

\* 0.04, in percent.
CESS_RATE == 4

STANDARD_DEDUCTION == 50000

(***************************************************************************)
(* utils/tax_utils.py: the slab tax                                        *)
(***************************************************************************)

\* list.index(x): the first position holding a value equal to x.
index(list, x) == CHOOSE i \in 1..Len(list) :
                      /\ list[i] = x
                      /\ \A j \in 1..(i - 1) : list[j] # x

\* The loop of calculate_tax_old_regime / calculate_tax_new_regime from the
\* i-th slab on, with the loop's two accumulators.
RECURSIVE slab_loop(_, _, _, _)
slab_loop(slabs, i, tax, remaining_income) ==
    IF i > Len(slabs) \/ remaining_income <= 0 THEN tax
    ELSE LET slab == slabs[i]
             previous_limit == IF slab = slabs[1] THEN 0
                               ELSE slabs[index(slabs, slab) - 1].limit
             income_in_slab == Min(slab.limit, remaining_income) - previous_limit
         IN slab_loop(slabs, i + 1,
                      tax + PercentOf(income_in_slab, slab.rate),
                      remaining_income - income_in_slab)

calculate_tax_old_regime(taxable_income) ==
    slab_loop(OLD_REGIME_SLABS, 1, 0, taxable_income)

calculate_tax_new_regime(taxable_income) ==
    slab_loop(NEW_REGIME_SLABS, 1, 0, taxable_income)

\* A mutant of calculate_surcharge: a slab is taken when the income is strictly
\* below its limit.
calculate_surcharge_strict(tax_amount, taxable_income) ==
    IF \E i \in 1..Len(SURCHARGE_SLABS) : taxable_income < SURCHARGE_SLABS[i].limit
    THEN LET first == CHOOSE i \in 1..Len(SURCHARGE_SLABS) :
                          /\ taxable_income < SURCHARGE_SLABS[i].limit
                          /\ \A j \in 1..(i - 1) : ~(taxable_income < SURCHARGE_SLABS[j].limit)
         IN PercentOf(tax_amount, SURCHARGE_SLABS[first].rate)
    ELSE 0

calculate_surcharge(tax_amount, taxable_income) ==
    IF \E i \in 1..Len(SURCHARGE_SLABS) : taxable_income <= SURCHARGE_SLABS[i].limit
    THEN LET first == CHOOSE i \in 1..Len(SURCHARGE_SLABS) :
                          /\ taxable_income <= SURCHARGE_SLABS[i].limit
                          /\ \A j \in 1..(i - 1) : ~(taxable_income <= SURCHARGE_SLABS[j].limit)
         IN PercentOf(tax_amount, SURCHARGE_SLABS[first].rate)
    ELSE 0

calculate_cess(tax_amount, surcharge) ==
    PercentOf(tax_amount + surcharge, CESS_RATE)

\* A mutant of calculate_taxable_income_old_regime: the result is not clamped
\* at 0.
calculate_taxable_income_old_regime_unclamped(gross_income, deductions) ==
    gross_income - SumValues(deductions)

calculate_taxable_income_old_regime(gross_income, deductions) ==
    LET total_deductions == SumValues(deductions)
    IN Max(0, gross_income - total_deductions)

calculate_taxable_income_new_regime(gross_income) ==
    Max(0, gross_income - STANDARD_DEDUCTION)

\* A mutant of calculate_hra_exemption: the rent in excess of 10% of the salary
\* is not clamped at 0.
calculate_hra_exemption_unclamped(basic_salary, hra_received, rent_paid, is_metro) ==
    LET exemption_1 == hra_received
        exemption_2 == rent_paid - (basic_salary \div 10)
        exemption_3 == (basic_salary \div 10) * (IF is_metro THEN 5 ELSE 4)
    IN Min(exemption_1, Min(exemption_2, exemption_3))

\* 0.1 * basic_salary and basic_salary * 0.5 (or 0.4): exact for the salaries the
\* model draws, which are multiples of Rs 10.
calculate_hra_exemption(basic_salary, hra_received, rent_paid, is_metro) ==
    LET exemption_1 == hra_received
        exemption_2 == Max(0, rent_paid - (basic_salary \div 10))
        exemption_3 == (basic_salary \div 10) * (IF is_metro THEN 5 ELSE 4)
    IN Min(exemption_1, Min(exemption_2, exemption_3))

(***************************************************************************)
(* Dates and financial-year strings                                        *)
(***************************************************************************)

\* datetime.date(year, month, day), compared as Python compares dates.
date(year, month, day) == <<year, month, day>>

DateLT(a, b) ==
    \/ a[1] < b[1]
    \/ a[1] = b[1] /\ a[2] < b[2]
    \/ a[1] = b[1] /\ a[2] = b[2] /\ a[3] < b[3]

DateLE(a, b) == a = b \/ DateLT(a, b)

DateMax(a, b) == IF DateLE(b, a) THEN a ELSE b
DateMin(a, b) == IF DateLE(a, b) THEN a ELSE b

\* A string is a sequence of one-character strings.
DigitValue(c) ==
    CASE c = "0" -> 0 [] c = "1" -> 1 [] c = "2" -> 2 [] c = "3" -> 3 [] c = "4" -> 4
      [] c = "5" -> 5 [] c = "6" -> 6 [] c = "7" -> 7 [] c = "8" -> 8 [] c = "9" -> 9

\* int(s) of a string of decimal digits.
RECURSIVE int(_)
int(s) == IF s = << >> THEN 0
          ELSE 10 * int(SubSeq(s, 1, Len(s) - 1)) + DigitValue(s[Len(s)])

\* s.split(sep) for a one-character separator.
RECURSIVE split(_, _)
split(s, sep) ==
    IF \E i \in 1..Len(s) : s[i] = sep
    THEN LET i == CHOOSE k \in 1..Len(s) : s[k] = sep /\ \A j \in 1..(k - 1) : s[j] # sep
         IN <<SubSeq(s, 1, i - 1)>> \o split(SubSeq(s, i + 1, Len(s)), sep)
    ELSE <<s>>

\* config.TAX_YEAR = "2024-25"
TAX_YEAR == <<"2", "0", "2", "4", "-", "2", "5">>

\* The window both calculate_total_income and get_tax_deductions compute from
\* the financial_year string.
fy_window(financial_year) ==
    LET fy_start_year == int(split(financial_year, "-")[1])
        fy_end_year == int(split(financial_year, "-")[2])
    IN [start_date |-> date(fy_start_year, 4, 1),
        end_date |-> date(fy_end_year, 3, 31)]

(***************************************************************************)
(* utils/tax_utils.py: income of a financial year                          *)
(***************************************************************************)

count_months_active(source_start, source_end, fy_start, fy_end) ==
    LET effective_start == DateMax(source_start, fy_start)
        effective_end == DateMin(IF source_end = None THEN fy_end ELSE source_end, fy_end)
        months == (effective_end[1] - effective_start[1]) * 12
                  + effective_end[2] - effective_start[2]
    IN IF DateLT(effective_end, effective_start) THEN 0
       ELSE IF effective_end[3] >= effective_start[3] THEN months + 1
       ELSE months

count_quarters_active(source_start, source_end, fy_start, fy_end) ==
    (count_months_active(source_start, source_end, fy_start, fy_end) + 2) \div 3

\* The query of calculate_total_income: the user's taxable sources overlapping
\* [start_date, end_date].
income_sources_query(user_id, database, start_date, end_date) ==
    {s \in database.income_sources :
        /\ s.user_id = user_id
        /\ s.is_taxable = TRUE
        /\ DateLE(s.start_date, end_date)
        /\ (s.end_date = None \/ DateLE(start_date, s.end_date))}

\* What one source adds to total_income.  count_years_active is months / 12, so
\* an annual source adds amount * months / 12: a whole number of rupees for the
\* sources the model creates.
source_income(source, start_date, end_date) ==
    IF source.frequency = "monthly"
    THEN source.amount * count_months_active(source.start_date, source.end_date, start_date, end_date)
    ELSE IF source.frequency = "quarterly"
    THEN source.amount * count_quarters_active(source.start_date, source.end_date, start_date, end_date)
    ELSE IF source.frequency = "annually"
    THEN (source.amount * count_months_active(source.start_date, source.end_date, start_date, end_date)) \div 12
    ELSE IF DateLE(start_date, source.start_date) /\ DateLE(source.start_date, end_date)
    THEN source.amount
    ELSE 0

calculate_total_income(user_id, database, financial_year) ==
    LET w == fy_window(financial_year)
        income_sources == income_sources_query(user_id, database, w.start_date, w.end_date)
    IN SumValues([s \in income_sources |-> source_income(s, w.start_date, w.end_date)])

(***************************************************************************)
(* utils/tax_utils.py: deductions                                          *)
(***************************************************************************)

\* The if/elif chain of get_tax_deductions: the dictionary key each
\* TaxDeductionType member adds to.
DeductionKey(deduction_type) ==
    CASE deduction_type = "SEC_80C" -> "80C"
      [] deduction_type = "SEC_80D" -> "80D"
      [] deduction_type = "SEC_80E" -> "80E"
      [] deduction_type = "SEC_80EE" -> "80EE"
      [] deduction_type = "SEC_80G" -> "80G"
      [] deduction_type = "SEC_80CCD" -> "80CCD"
      [] deduction_type = "HRA" -> "HRA"
      [] deduction_type = "LTA" -> "LTA"
      [] deduction_type = "HOME_LOAN_INTEREST" -> "HOME_LOAN_INTEREST"
      [] deduction_type = "OTHER" -> "OTHER"

DeductionKeys == {"80C", "80D", "80E", "80EE", "80G", "80CCD", "HRA", "LTA",
                  "HOME_LOAN_INTEREST", "OTHER", "STANDARD_DEDUCTION"}

\* The dictionary after the loop over the user's TaxDeduction rows of the year.
recorded_deductions(user_id, database, financial_year) ==
    LET deductions == {d \in database.tax_deductions :
                          d.user_id = user_id /\ d.financial_year = financial_year}
    IN [k \in DeductionKeys |->
           IF k = "STANDARD_DEDUCTION" THEN STANDARD_DEDUCTION
           ELSE LET of_key == {d \in deductions : DeductionKey(d.deduction_type) = k}
                IN SumValues([d \in of_key |-> d.amount])]

\* Interest of the user's tax-deductible home loans overlapping the window.
\* (rate / 100) * remaining / 12 * months: whole rupees for the loans the model
\* creates.  A loan with no EMI or no rate (None or 0) adds nothing.
home_loan_interest(user_id, database, start_date, end_date) ==
    LET home_loans == {l \in database.debts :
                          /\ l.user_id = user_id
                          /\ l.debt_type = "home_loan"
                          /\ l.is_tax_deductible = TRUE
                          /\ DateLE(l.start_date, end_date)
                          /\ (l.end_date = None \/ DateLE(start_date, l.end_date))}
        interest_paid(loan) ==
            LET months == count_months_active(loan.start_date, loan.end_date, start_date, end_date)
            IN IF loan.emi_amount # None /\ loan.emi_amount # Some(0) /\ loan.interest_rate # 0
               THEN (PercentOf(loan.remaining_amount, loan.interest_rate) \div 12) * months
               ELSE 0
    IN SumValues([l \in home_loans |-> interest_paid(l)])

\* Premiums of the user's tax-deductible health insurance overlapping the window.
health_insurance_premiums(user_id, database, start_date, end_date) ==
    LET health_insurances == {p \in database.insurance_policies :
                                 /\ p.user_id = user_id
                                 /\ p.insurance_type = "health"
                                 /\ p.is_tax_deductible = TRUE
                                 /\ DateLE(p.start_date, end_date)
                                 /\ DateLE(start_date, p.end_date)}
        premium(insurance) ==
            IF insurance.premium_frequency = "annually" THEN insurance.premium_amount
            ELSE IF insurance.premium_frequency = "monthly" THEN insurance.premium_amount * 12
            ELSE IF insurance.premium_frequency = "quarterly" THEN insurance.premium_amount * 4
            ELSE 0
    IN SumValues([p \in health_insurances |-> premium(p)])

get_tax_deductions(user_id, database, financial_year) ==
    LET recorded == recorded_deductions(user_id, database, financial_year)
        w == fy_window(financial_year)
    IN [recorded EXCEPT
           !["80C"] = Min(@, 150000),
           !["HOME_LOAN_INTEREST"] = @ + home_loan_interest(user_id, database, w.start_date, w.end_date),
           !["80D"] = @ + health_insurance_premiums(user_id, database, w.start_date, w.end_date)]

(***************************************************************************)
(* utils/tax_utils.py: the liability under both regimes                    *)
(***************************************************************************)

\* A mutant of better_regime_of: a tie goes to "new".
better_regime_of_strict(total_tax_old, total_tax_new) ==
    IF total_tax_old < total_tax_new THEN "old" ELSE "new"

\* "old" if total_tax_old <= total_tax_new else "new"
better_regime_of(total_tax_old, total_tax_new) ==
    IF total_tax_old <= total_tax_new THEN "old" ELSE "new"

calculate_tax_liability(user_id, database, financial_year) ==
    LET gross_income == calculate_total_income(user_id, database, financial_year)
        deductions == get_tax_deductions(user_id, database, financial_year)
        taxable_income_old == calculate_taxable_income_old_regime(gross_income, deductions)
        tax_old == calculate_tax_old_regime(taxable_income_old)
        surcharge_old == calculate_surcharge(tax_old, taxable_income_old)
        cess_old == calculate_cess(tax_old, surcharge_old)
        total_tax_old == tax_old + surcharge_old + cess_old
        taxable_income_new == calculate_taxable_income_new_regime(gross_income)
        tax_new == calculate_tax_new_regime(taxable_income_new)
        surcharge_new == calculate_surcharge(tax_new, taxable_income_new)
        cess_new == calculate_cess(tax_new, surcharge_new)
        total_tax_new == tax_new + surcharge_new + cess_new
        better_regime == better_regime_of(total_tax_old, total_tax_new)
        savings == Abs(total_tax_old - total_tax_new)
    IN [financial_year |-> financial_year,
        gross_income |-> gross_income,
        old_regime |-> [taxable_income |-> taxable_income_old,
                        tax |-> tax_old,
                        surcharge |-> surcharge_old,
                        cess |-> cess_old,
                        total_tax |-> total_tax_old,
                        deductions |-> deductions],
        new_regime |-> [taxable_income |-> taxable_income_new,
                        tax |-> tax_new,
                        surcharge |-> surcharge_new,
                        cess |-> cess_new,
                        total_tax |-> total_tax_new,
                        deductions |-> [k \in {"STANDARD_DEDUCTION"} |-> STANDARD_DEDUCTION]],
        better_regime |-> better_regime,
        tax_savings |-> savings]

(***************************************************************************)
(* The state: the database and the session                                 *)
(***************************************************************************)

Tables == {"users", "income_sources", "tax_deductions", "debts",
           "insurance_policies", "investments", "expenses", "financial_goals",
           "budgets", "documents", "notifications", "financial_calendar_events"}

\* The database as created by the schema: every table empty, every
\* auto-increment counter at 1.  now is the database server's clock.
EmptyDb ==
    [users |-> {}, income_sources |-> {}, tax_deductions |-> {}, debts |-> {},
     insurance_policies |-> {}, investments |-> {},
     expenses |-> {}, financial_goals |-> {},
     budgets |-> {}, documents |-> {}, notifications |-> {},
     financial_calendar_events |-> {},
     next_id |-> [t \in Tables |-> 1],
     now |-> 0]

\* db.add(row); db.commit(); db.refresh(row): the row gets the table's next id.
Insert(database, table, row) ==
    [database EXCEPT ![table] = @ \cup {[id |-> database.next_id[table]] @@ row},
                     !.next_id[table] = @ + 1]

\* bcrypt.hashpw(password, salt) and bcrypt.checkpw(password, hashed): the hash
\* keeps its salt, and a password verifies when hashing it under that salt
\* gives the stored hash.
hashpw(password, salt) == <<"bcrypt", salt, password>>

verify_password(plain_password, hashed_password) ==
    hashpw(plain_password, hashed_password[2]) = hashed_password

\* The row create_user stores: is_active defaults to True, last_login to NULL.
\* The salt is drawn by bcrypt.gensalt(); the model uses the row's id.
new_user(database, email, username, password) ==
    [email |-> email, username |-> username,
     hashed_password |-> hashpw(password, database.next_id["users"]),
     is_active |-> TRUE, last_login |-> None]

\* init_auth_session_state
InitSession ==
    [user_id |-> None, username |-> None, is_authenticated |-> FALSE,
     authentication_status |-> None]

\* Two registered users, the owners of the records of the tax and net worth
\* operations.
UserIds == {1, 2}

TwoUsersDb ==
    Insert(Insert(EmptyDb, "users", new_user(EmptyDb, "a@x.in", "asha", "Pass1234")),
           "users",
           [email |-> "b@x.in", username |-> "bala",
            hashed_password |-> hashpw("Word5678", 2),
            is_active |-> TRUE, last_login |-> None])

Init ==
    /\ db = TwoUsersDb
    /\ session = InitSession
    /\ call = [op |-> "none"]

(***************************************************************************)
(* The pure calculators, each applied to inputs drawn from bounded sets    *)
(***************************************************************************)

MaxIncomeSteps == 40
MaxGrossSteps == 10
MaxDeductionSteps == 4
MaxSalarySteps == 5

\* Taxable and gross incomes: multiples of Rs 50,000 up to Rs 2,000,000, past
\* the last slab limit of both regimes.
TaxableIncomes == {k * 50000 : k \in 0..MaxIncomeSteps}

\* Gross incomes for the taxable-income functions: multiples of Rs 250,000.
GrossIncomes == {k * 250000 : k \in 0..MaxGrossSteps}

\* Deduction dictionaries as get_tax_deductions builds them, with three entries
\* varying; an amount may be negative, the amount column having no constraint.
DeductionAmounts == {k * 50000 : k \in (0 - 1)..MaxDeductionSteps}

DeductionDicts ==
    {[k \in DeductionKeys |->
         IF k = "STANDARD_DEDUCTION" THEN STANDARD_DEDUCTION
         ELSE IF k = "80C" THEN a
         ELSE IF k = "HRA" THEN b
         ELSE IF k = "OTHER" THEN c
         ELSE 0] : a \in DeductionAmounts, b \in {0, 100000}, c \in {0, 2000000}}

\* Monthly salary, HRA and rent: multiples of Rs 5,000.
SalaryAmounts == {k * 5000 : k \in 0..MaxSalarySteps}

CalculateTaxOldRegime(taxable_income) ==
    /\ call' = [op |-> "calculate_tax_old_regime", taxable_income |-> taxable_income,
                ret |-> calculate_tax_old_regime(taxable_income)]
    /\ UNCHANGED <<db, session>>

CalculateTaxNewRegime(taxable_income) ==
    /\ call' = [op |-> "calculate_tax_new_regime", taxable_income |-> taxable_income,
                ret |-> calculate_tax_new_regime(taxable_income)]
    /\ UNCHANGED <<db, session>>

CalculateTaxableIncomeOldRegime(gross_income, deductions) ==
    /\ call' = [op |-> "calculate_taxable_income_old_regime",
                gross_income |-> gross_income, deductions |-> deductions,
                ret |-> calculate_taxable_income_old_regime(gross_income, deductions)]
    /\ UNCHANGED <<db, session>>

CalculateTaxableIncomeNewRegime(gross_income) ==
    /\ call' = [op |-> "calculate_taxable_income_new_regime",
                gross_income |-> gross_income,
                ret |-> calculate_taxable_income_new_regime(gross_income)]
    /\ UNCHANGED <<db, session>>

CalculateHraExemption(basic_salary, hra_received, rent_paid, is_metro) ==
    /\ call' = [op |-> "calculate_hra_exemption",
                basic_salary |-> basic_salary, hra_received |-> hra_received,
                rent_paid |-> rent_paid, is_metro |-> is_metro,
                ret |-> calculate_hra_exemption(basic_salary, hra_received, rent_paid, is_metro)]
    /\ UNCHANGED <<db, session>>

NextCalc ==
    \/ \E t \in TaxableIncomes : CalculateTaxOldRegime(t)
    \/ \E t \in TaxableIncomes : CalculateTaxNewRegime(t)
    \/ \E g \in GrossIncomes, d \in DeductionDicts : CalculateTaxableIncomeOldRegime(g, d)
    \/ \E g \in GrossIncomes : CalculateTaxableIncomeNewRegime(g)
    \/ \E b \in SalaryAmounts, h \in SalaryAmounts, r \in SalaryAmounts, m \in BOOLEAN :
           CalculateHraExemption(b, h, r, m)

SpecCalc == Init /\ [][NextCalc]_vars

(***************************************************************************)
(* database/operations.py: the rows the tax operations read                *)
(***************************************************************************)

\* Only the columns the modelled operations read are kept in a row.
CreateIncomeSource(user_id, amount, frequency, is_taxable, start_date, end_date) ==
    /\ db' = Insert(db, "income_sources",
                    [user_id |-> user_id, amount |-> amount, frequency |-> frequency,
                     is_taxable |-> is_taxable, start_date |-> start_date,
                     end_date |-> end_date])
    /\ call' = [op |-> "create_income_source", ret |-> db.next_id["income_sources"]]
    /\ UNCHANGED session

CreateTaxDeduction(user_id, deduction_type, amount, financial_year) ==
    /\ db' = Insert(db, "tax_deductions",
                    [user_id |-> user_id, deduction_type |-> deduction_type,
                     amount |-> amount, financial_year |-> financial_year])
    /\ call' = [op |-> "create_tax_deduction", ret |-> db.next_id["tax_deductions"]]
    /\ UNCHANGED session

\* debt_type and insurance_type hold the enum member's value ("home_loan",
\* "health"), the string the queries of get_tax_deductions compare with.
CreateDebt(user_id, debt_type, remaining_amount, interest_rate, start_date, end_date, emi_amount, is_tax_deductible) ==
    /\ db' = Insert(db, "debts",
                    [user_id |-> user_id, debt_type |-> debt_type,
                     remaining_amount |-> remaining_amount,
                     interest_rate |-> interest_rate, start_date |-> start_date,
                     end_date |-> end_date, emi_amount |-> emi_amount,
                     is_tax_deductible |-> is_tax_deductible])
    /\ call' = [op |-> "create_debt", ret |-> db.next_id["debts"]]
    /\ UNCHANGED session

CreateInsurance(user_id, insurance_type, premium_amount, premium_frequency, start_date, end_date, is_tax_deductible) ==
    /\ db' = Insert(db, "insurance_policies",
                    [user_id |-> user_id, insurance_type |-> insurance_type,
                     premium_amount |-> premium_amount,
                     premium_frequency |-> premium_frequency,
                     start_date |-> start_date, end_date |-> end_date,
                     is_tax_deductible |-> is_tax_deductible])
    /\ call' = [op |-> "create_insurance", ret |-> db.next_id["insurance_policies"]]
    /\ UNCHANGED session

(***************************************************************************)
(* The tax operations, run against the database                            *)
(***************************************************************************)

\* The call records the window the function computed from financial_year,
\* beside what it returned.
CalculateTotalIncome(user_id, financial_year) ==
    /\ call' = [op |-> "calculate_total_income", user_id |-> user_id,
                financial_year |-> financial_year,
                window |-> fy_window(financial_year),
                ret |-> calculate_total_income(user_id, db, financial_year)]
    /\ UNCHANGED <<db, session>>

GetTaxDeductions(user_id, financial_year) ==
    /\ call' = [op |-> "get_tax_deductions", user_id |-> user_id,
                financial_year |-> financial_year,
                window |-> fy_window(financial_year),
                ret |-> get_tax_deductions(user_id, db, financial_year)]
    /\ UNCHANGED <<db, session>>

CalculateTaxLiability(user_id, financial_year) ==
    /\ call' = [op |-> "calculate_tax_liability", user_id |-> user_id,
                financial_year |-> financial_year,
                ret |-> calculate_tax_liability(user_id, db, financial_year)]
    /\ UNCHANGED <<db, session>>

\* The years the tax planning page offers, "2024-25", "2023-24" and "2022-23",
\* and a year written with both years in full, "2024-2025", which the functions
\* accept as well (financial_year is any string of the form <int>-<int>).
FY_2023_24 == <<"2", "0", "2", "3", "-", "2", "4">>
FY_2022_23 == <<"2", "0", "2", "2", "-", "2", "3">>
FY_2024_2025 == <<"2", "0", "2", "4", "-", "2", "0", "2", "5">>

PageTaxYears == {TAX_YEAR, FY_2023_24, FY_2022_23}

(***************************************************************************)
(* Spec: incomes and deductions are recorded, and the liability computed   *)
(***************************************************************************)

MaxRows == 2

\* Annual incomes, chosen so that a taxable income reaches each surcharge
\* slab and its limit: 5,050,000 - 50,000 = 5,000,000 and so on.
LiabilityAmounts == {600000, 5050000, 5100000, 10050000, 15000000, 40000000}

LiabilityYears == {TAX_YEAR, FY_2024_2025}

Rows == Cardinality(db.income_sources) + Cardinality(db.tax_deductions)
        + Cardinality(db.debts) + Cardinality(db.insurance_policies)

Next ==
    \/ /\ Rows < MaxRows
       /\ \E u \in UserIds, a \in LiabilityAmounts :
              CreateIncomeSource(u, a, "annually", TRUE, date(2024, 4, 1), None)
    \/ /\ Rows < MaxRows
       /\ \E u \in UserIds, t \in {"SEC_80C", "OTHER"}, fy \in LiabilityYears :
              CreateTaxDeduction(u, t, 200000, fy)
    \/ \E u \in UserIds, fy \in LiabilityYears : CalculateTaxLiability(u, fy)

Spec == Init /\ [][Next]_vars

(***************************************************************************)
(* SpecIncome: income sources are recorded, and the year's income computed *)
(***************************************************************************)

MaxIncomeSources == 2

IncomeStartDates == {date(2023, 6, 10), date(2024, 4, 1), date(2024, 7, 15)}
IncomeEndDates == {None, date(2024, 9, 10)}
IncomeFrequencies == {"monthly", "quarterly", "annually", "one-time"}
IncomeYears == {TAX_YEAR, FY_2023_24, FY_2024_2025}

NextIncome ==
    \/ /\ Cardinality(db.income_sources) < MaxIncomeSources
       /\ \E u \in UserIds, f \in IncomeFrequencies, t \in BOOLEAN,
             sd \in IncomeStartDates, ed \in IncomeEndDates :
              CreateIncomeSource(u, 600000, f, t, sd, ed)
    \/ \E u \in UserIds, fy \in IncomeYears : CalculateTotalIncome(u, fy)
    \/ \E u \in UserIds, fy \in IncomeYears : GetTaxDeductions(u, fy)

SpecIncome == Init /\ [][NextIncome]_vars

(***************************************************************************)
(* SpecDeductions: deductions, loans and policies are recorded, and the    *)
(* year's deductions computed                                              *)
(***************************************************************************)

MaxDeductionRows == 2

DeductionYears == {TAX_YEAR, FY_2024_2025}

NextDeductions ==
    \/ /\ Rows < MaxDeductionRows
       /\ \E u \in UserIds, t \in {"SEC_80C", "SEC_80D", "SEC_80CCD", "HOME_LOAN_INTEREST"},
             a \in {100000, 300000}, fy \in DeductionYears :
              CreateTaxDeduction(u, t, a, fy)
    \/ /\ Rows < MaxDeductionRows
       /\ \E u \in UserIds, t \in {"home_loan", "car_loan"}, r \in {0, 10},
             e \in {None, Some(50000)}, x \in BOOLEAN :
              CreateDebt(u, t, 6000000, r, date(2024, 4, 1), None, e, x)
    \/ /\ Rows < MaxDeductionRows
       /\ \E u \in UserIds, t \in {"health", "life"},
             f \in {"annually", "monthly", "quarterly"}, x \in BOOLEAN :
              CreateInsurance(u, t, 10000, f, date(2024, 4, 1), date(2025, 3, 31), x)
    \/ \E u \in UserIds, fy \in DeductionYears : GetTaxDeductions(u, fy)

SpecDeductions == Init /\ [][NextDeductions]_vars

(***************************************************************************)
(* SpecAuth: users register, are deactivated, log in and log out           *)
(***************************************************************************)

\* get_user_by_email(...).first(): the row of that email with the least id
\* (email is unique), or None.
get_user_by_email(database, email) ==
    LET found == {u \in database.users : u.email = email}
    IN IF found = {} THEN None
       ELSE Some(CHOOSE u \in found : \A v \in found : u.id <= v.id)

\* update_user_login: last_login = datetime.now().  The clock advances with
\* every login it stamps.
update_user_login(database, user_id) ==
    [database EXCEPT
        !.users = {IF u.id = user_id THEN [u EXCEPT !.last_login = Some(database.now + 1)]
                   ELSE u : u \in @},
        !.now = @ + 1]

\* A mutant of login: the password is checked before is_active.
login_password_first(database, sess, email, password) ==
    LET found == get_user_by_email(database, email)
        user == found[1]
    IN IF found = None
       THEN [db |-> database,
             session |-> [sess EXCEPT !.authentication_status = Some("invalid_user")],
             ret |-> FALSE]
       ELSE IF ~verify_password(password, user.hashed_password)
       THEN [db |-> database,
             session |-> [sess EXCEPT !.authentication_status = Some("invalid_password")],
             ret |-> FALSE]
       ELSE IF ~user.is_active
       THEN [db |-> database,
             session |-> [sess EXCEPT !.authentication_status = Some("inactive_user")],
             ret |-> FALSE]
       ELSE [db |-> update_user_login(database, user.id),
             session |-> [user_id |-> Some(user.id),
                          username |-> Some(user.username),
                          is_authenticated |-> TRUE,
                          authentication_status |-> Some("authenticated")],
             ret |-> TRUE]

\* login(db, email, password): the database and session it leaves, and what
\* it returns.
login(database, sess, email, password) ==
    LET found == get_user_by_email(database, email)
        user == found[1]
    IN IF found = None
       THEN [db |-> database,
             session |-> [sess EXCEPT !.authentication_status = Some("invalid_user")],
             ret |-> FALSE]
       ELSE IF ~user.is_active
       THEN [db |-> database,
             session |-> [sess EXCEPT !.authentication_status = Some("inactive_user")],
             ret |-> FALSE]
       ELSE IF ~verify_password(password, user.hashed_password)
       THEN [db |-> database,
             session |-> [sess EXCEPT !.authentication_status = Some("invalid_password")],
             ret |-> FALSE]
       ELSE [db |-> update_user_login(database, user.id),
             session |-> [user_id |-> Some(user.id),
                          username |-> Some(user.username),
                          is_authenticated |-> TRUE,
                          authentication_status |-> Some("authenticated")],
             ret |-> TRUE]

\* create_user: email and username are unique columns, so the commit of a
\* duplicate raises and stores nothing.
CreateUser(email, username, password) ==
    /\ IF \E u \in db.users : u.email = email \/ u.username = username
       THEN /\ db' = db
            /\ call' = [op |-> "create_user", ret |-> "IntegrityError"]
       ELSE /\ db' = Insert(db, "users", new_user(db, email, username, password))
            /\ call' = [op |-> "create_user", ret |-> db.next_id["users"]]
    /\ UNCHANGED session

\* update_user_profile(db, user_id, is_active=...)
UpdateUserProfile(user_id, is_active) ==
    /\ db' = [db EXCEPT !.users = {IF u.id = user_id THEN [u EXCEPT !.is_active = is_active]
                                   ELSE u : u \in @}]
    /\ call' = [op |-> "update_user_profile", ret |-> user_id]
    /\ UNCHANGED session

\* The login form of show_login_page, which main renders only while
\* is_authenticated is false: an empty field is reported without calling
\* login.
SubmitLoginForm(email, password) ==
    /\ ~session.is_authenticated
    /\ IF email = "" \/ password = ""
       THEN /\ call' = [op |-> "show_login_page",
                        ret |-> "Please enter both email and password"]
            /\ UNCHANGED <<db, session>>
       ELSE LET r == login(db, session, email, password)
            IN /\ db' = r.db
               /\ session' = r.session
               /\ call' = [op |-> "login", email |-> email, password |-> password,
                           ret |-> r.ret]

\* The Logout button of main's sidebar, rendered while is_authenticated is
\* true: it leaves authentication_status as it is.
LogoutButton ==
    /\ session.is_authenticated
    /\ session' = [session EXCEPT !.is_authenticated = FALSE,
                                  !.user_id = None,
                                  !.username = None]
    /\ call' = [op |-> "logout"]
    /\ UNCHANGED db

MaxUsers == 2
MaxLogins == 2

Emails == {"a@x.in", "b@x.in"}
Usernames == {"asha", "bala"}
Passwords == {"Pass1234", "Word5678"}

InitAuth ==
    /\ db = EmptyDb
    /\ session = InitSession
    /\ call = [op |-> "none"]

NextAuth ==
    \/ /\ Cardinality(db.users) < MaxUsers
       /\ \E e \in Emails, n \in Usernames, p \in Passwords : CreateUser(e, n, p)
    \/ \E u \in {r.id : r \in db.users}, b \in BOOLEAN : UpdateUserProfile(u, b)
    \/ /\ db.now < MaxLogins
       /\ \E e \in Emails \cup {""}, p \in Passwords \cup {""} : SubmitLoginForm(e, p)
    \/ LogoutButton

SpecAuth == InitAuth /\ [][NextAuth]_vars

(***************************************************************************)
(* SpecNetWorth: investments and debts are recorded, and net worth computed *)
(***************************************************************************)

\* create_investment stores current_value = amount.
CreateInvestment(user_id, amount) ==
    /\ db' = Insert(db, "investments",
                    [user_id |-> user_id, amount |-> amount,
                     current_value |-> Some(amount)])
    /\ call' = [op |-> "create_investment", ret |-> db.next_id["investments"]]
    /\ UNCHANGED session

\* update_investment(db, investment_id, user_id, current_value=...): sets the
\* column on the row of that id and user, if there is one.
UpdateInvestment(investment_id, user_id, current_value) ==
    /\ db' = [db EXCEPT !.investments =
                 {IF i.id = investment_id /\ i.user_id = user_id
                  THEN [i EXCEPT !.current_value = current_value]
                  ELSE i : i \in @}]
    /\ call' = [op |-> "update_investment",
                ret |-> IF \E i \in db.investments :
                               i.id = investment_id /\ i.user_id = user_id
                        THEN Some(investment_id) ELSE None]
    /\ UNCHANGED session

\* investment.current_value or investment.amount
value_of(investment) ==
    IF investment.current_value # None /\ investment.current_value # Some(0)
    THEN investment.current_value[1]
    ELSE investment.amount

calculate_net_worth(user_id, database) ==
    LET investments == {i \in database.investments : i.user_id = user_id}
        total_assets == SumValues([i \in investments |-> value_of(i)])
        debts == {d \in database.debts : d.user_id = user_id}
        total_liabilities == SumValues([d \in debts |-> d.remaining_amount])
        net_worth == total_assets - total_liabilities
    IN [assets |-> total_assets, liabilities |-> total_liabilities,
        net_worth |-> net_worth]

CalculateNetWorth(user_id) ==
    /\ call' = [op |-> "calculate_net_worth", user_id |-> user_id,
                ret |-> calculate_net_worth(user_id, db)]
    /\ UNCHANGED <<db, session>>

MaxHoldings == 2

\* The value the Update Current Value input sends is a number >= 0; the
\* column is nullable, and the accessor stores a None as well.
CurrentValues == {None, Some(0), Some(250000)}

NextNetWorth ==
    \/ /\ Cardinality(db.investments) < MaxHoldings
       /\ \E u \in UserIds, a \in {100000, 400000} : CreateInvestment(u, a)
    \/ \E i \in {r.id : r \in db.investments}, u \in UserIds, v \in CurrentValues :
           UpdateInvestment(i, u, v)
    \/ /\ Cardinality(db.debts) < MaxHoldings
       /\ \E u \in UserIds, r \in {0, 300000} :
              CreateDebt(u, "car_loan", r, 9, date(2024, 4, 1), None, Some(10000), FALSE)
    \/ \E u \in UserIds : CalculateNetWorth(u)

SpecNetWorth == Init /\ [][NextNetWorth]_vars

(***************************************************************************)
(* Exact arithmetic.  The code's float quotients (a third of a quarterly   *)
(* income, a rate, an EMI) are not whole numbers; the model holds them as  *)
(* fractions <<numerator, denominator>> in lowest terms with a positive    *)
(* denominator, so that each value is the exact real value of the code's   *)
(* expression and equal values are equal tuples.                           *)
(***************************************************************************)

RECURSIVE Gcd(_, _)
Gcd(a, b) == IF b = 0 THEN a ELSE Gcd(b, a % b)

\* n / d
Rat(n, d) ==
    LET g == Gcd(Abs(n), Abs(d))
    IN IF d > 0 THEN <<n \div g, d \div g>> ELSE <<(0 - n) \div g, (0 - d) \div g>>

FromInt(n) == <<n, 1>>

RatAdd(a, b) ==
    LET l == (a[2] \div Gcd(a[2], b[2])) * b[2]
    IN Rat(a[1] * (l \div a[2]) + b[1] * (l \div b[2]), l)

RatNeg(a) == <<0 - a[1], a[2]>>
RatSub(a, b) == RatAdd(a, RatNeg(b))

\* Cross-cancelling first keeps the products small.
RatMul(a, b) ==
    LET g1 == Gcd(Abs(a[1]), b[2])
        g2 == Gcd(Abs(b[1]), a[2])
    IN Rat((a[1] \div g1) * (b[1] \div g2), (a[2] \div g2) * (b[2] \div g1))

\* a / b for b # 0
RatDiv(a, b) == RatMul(a, IF b[1] > 0 THEN <<b[2], b[1]>> ELSE <<0 - b[2], 0 - b[1]>>)

RatLT(a, b) == a[1] * b[2] < b[1] * a[2]
RatLE(a, b) == a[1] * b[2] <= b[1] * a[2]
RatMin(a, b) == IF RatLE(a, b) THEN a ELSE b
RatMax(a, b) == IF RatLE(b, a) THEN a ELSE b

\* a ** n for an integer n >= 0
RECURSIVE RatPow(_, _)
RatPow(a, n) == IF n = 0 THEN FromInt(1) ELSE RatMul(a, RatPow(a, n - 1))

(***************************************************************************)
(* finwise/utils/finance_utils.py: the loan amortization schedule          *)
(***************************************************************************)

\* The schedule loop with a flat interest on the original principal.
RECURSIVE amortization_loop_flat(_, _, _, _, _, _)
amortization_loop_flat(principal, monthly_rate, emi, tenure_months, month, remaining_principal) ==
    IF month > tenure_months THEN << >>
    ELSE LET interest_payment == RatMul(FromInt(principal), monthly_rate)
             principal_payment == RatSub(emi, interest_payment)
             remaining == RatSub(remaining_principal, principal_payment)
         IN <<[month |-> month, emi |-> emi, principal_payment |-> principal_payment,
               interest_payment |-> interest_payment,
               remaining_principal |-> RatMax(FromInt(0), remaining)]>>
            \o amortization_loop_flat(principal, monthly_rate, emi, tenure_months,
                                      month + 1, remaining)

\* for month in range(1, tenure_months + 1): the entries from month on, given
\* the principal outstanding before month's payment.
RECURSIVE amortization_loop(_, _, _, _, _, _)
amortization_loop(principal, monthly_rate, emi, tenure_months, month, remaining_principal) ==
    IF month > tenure_months THEN << >>
    ELSE LET interest_payment == RatMul(remaining_principal, monthly_rate)
             principal_payment == RatSub(emi, interest_payment)
             remaining == RatSub(remaining_principal, principal_payment)
         IN <<[month |-> month, emi |-> emi, principal_payment |-> principal_payment,
               interest_payment |-> interest_payment,
               remaining_principal |-> RatMax(FromInt(0), remaining)]>>
            \o amortization_loop(principal, monthly_rate, emi, tenure_months,
                                 month + 1, remaining)

calculate_loan_amortization(principal, rate, tenure_months) ==
    LET monthly_rate == Rat(rate, 12 * 100)
        growth == RatPow(RatAdd(FromInt(1), monthly_rate), tenure_months)
        emi == IF monthly_rate = FromInt(0) THEN Rat(principal, tenure_months)
               ELSE RatDiv(RatMul(RatMul(FromInt(principal), monthly_rate), growth),
                           RatSub(growth, FromInt(1)))
    IN [loan_amount |-> principal,
        interest_rate_annual |-> rate,
        tenure_months |-> tenure_months,
        emi |-> emi,
        total_payment |-> RatMul(emi, FromInt(tenure_months)),
        total_interest |-> RatSub(RatMul(emi, FromInt(tenure_months)), FromInt(principal)),
        amortization_schedule |->
            amortization_loop(principal, monthly_rate, emi, tenure_months, 1,
                              FromInt(principal))]

CalculateLoanAmortization(principal, rate, tenure_months) ==
    /\ call' = [op |-> "calculate_loan_amortization", principal |-> principal,
                rate |-> rate, tenure_months |-> tenure_months,
                ret |-> calculate_loan_amortization(principal, rate, tenure_months)]
    /\ UNCHANGED <<db, session>>

\* b ** n of integers.
RECURSIVE IntPow(_, _)
IntPow(b, n) == IF n = 0 THEN 1 ELSE b * IntPow(b, n - 1)

\* a ** n of a fraction in lowest terms, which its powers then are as well.
RatPowInt(a, n) == <<IntPow(a[1], n), IntPow(a[2], n)>>

\* calculate_sip_returns: what it returns, or the exception it raises.  The
\* division by monthly_rate raises ZeroDivisionError when monthly_rate is 0.
calculate_sip_returns(monthly_investment, expected_return_rate, tenure_years) ==
    LET monthly_rate == Rat(expected_return_rate, 12 * 100)
        tenure_months == tenure_years * 12
    IN IF monthly_rate = FromInt(0)
       THEN [raised |-> "ZeroDivisionError", ret |-> None]
       ELSE LET growth == RatPowInt(RatAdd(FromInt(1), monthly_rate), tenure_months)
                future_value ==
                    RatMul(RatMul(FromInt(monthly_investment),
                                  RatDiv(RatSub(growth, FromInt(1)), monthly_rate)),
                           RatAdd(FromInt(1), monthly_rate))
                total_invested == FromInt(monthly_investment * tenure_months)
                wealth_gained == RatSub(future_value, total_invested)
            IN [raised |-> "",
                ret |-> Some([monthly_investment |-> monthly_investment,
                              expected_return_rate |-> expected_return_rate,
                              tenure_years |-> tenure_years,
                              tenure_months |-> tenure_months,
                              future_value |-> future_value,
                              total_invested |-> total_invested,
                              wealth_gained |-> wealth_gained,
                              absolute_return_percent |->
                                  RatMul(RatDiv(wealth_gained, total_invested),
                                         FromInt(100))])]

CalculateSipReturns(monthly_investment, expected_return_rate, tenure_years) ==
    LET r == calculate_sip_returns(monthly_investment, expected_return_rate, tenure_years)
    IN /\ call' = [op |-> "calculate_sip_returns",
                   monthly_investment |-> monthly_investment,
                   expected_return_rate |-> expected_return_rate,
                   tenure_years |-> tenure_years,
                   raised |-> r.raised, ret |-> r.ret]
       /\ UNCHANGED <<db, session>>

(***************************************************************************)
(* finwise/utils/finance_utils.py: the month's income and expenses, the    *)
(* savings rate and the financial health score                             *)
(***************************************************************************)

IsLeapYear(year) == year % 4 = 0 /\ (year % 100 # 0 \/ year % 400 = 0)

DaysInMonth(year, month) ==
    IF month = 2 THEN (IF IsLeapYear(year) THEN 29 ELSE 28)
    ELSE IF month \in {4, 6, 9, 11} THEN 30 ELSE 31

\* d - datetime.timedelta(days = n)
RECURSIVE DateMinusDays(_, _)
DateMinusDays(d, n) ==
    IF n < d[3] THEN date(d[1], d[2], d[3] - n)
    ELSE LET year == IF d[2] = 1 THEN d[1] - 1 ELSE d[1]
             month == IF d[2] = 1 THEN 12 ELSE d[2] - 1
         IN DateMinusDays(date(year, month, DaysInMonth(year, month)), n - d[3])

\* The first and the last day of the month, as both monthly functions
\* compute them.
month_window(month, year) ==
    [start_date |-> date(year, month, 1),
     end_date |-> DateMinusDays(IF month = 12 THEN date(year + 1, 1, 1)
                                ELSE date(year, month + 1, 1), 1)]

calculate_monthly_income(user_id, database, month, year) ==
    LET w == month_window(month, year)
        sources(frequency) ==
            {s \in database.income_sources :
                /\ s.user_id = user_id
                /\ s.frequency = frequency
                /\ DateLE(s.start_date, w.end_date)
                /\ (s.end_date = None \/ DateLE(w.start_date, s.end_date))}
        one_time_sources ==
            {s \in database.income_sources :
                /\ s.user_id = user_id
                /\ s.frequency = "one-time"
                /\ s.start_date[2] = month
                /\ s.start_date[1] = year}
        monthly_income == SumValues([s \in sources("monthly") |-> s.amount])
        quarterly_income == Rat(SumValues([s \in sources("quarterly") |-> s.amount]), 3)
        annual_income == Rat(SumValues([s \in sources("annually") |-> s.amount]), 12)
        one_time_income == SumValues([s \in one_time_sources |-> s.amount])
    IN RatAdd(RatAdd(RatAdd(FromInt(monthly_income), quarterly_income), annual_income),
              FromInt(one_time_income))

calculate_monthly_expenses(user_id, database, month, year) ==
    LET w == month_window(month, year)
        expenses == {e \in database.expenses :
                        /\ e.user_id = user_id
                        /\ DateLE(w.start_date, e.date)
                        /\ DateLE(e.date, w.end_date)}
    IN FromInt(SumValues([e \in expenses |-> e.amount]))

\* The savings rate without the floor at 0.
calculate_savings_rate_unclamped(user_id, database, month, year) ==
    LET income == calculate_monthly_income(user_id, database, month, year)
        expenses == calculate_monthly_expenses(user_id, database, month, year)
    IN IF income = FromInt(0) THEN FromInt(0)
       ELSE RatMul(RatDiv(RatSub(income, expenses), income), FromInt(100))

calculate_savings_rate(user_id, database, month, year) ==
    LET income == calculate_monthly_income(user_id, database, month, year)
        expenses == calculate_monthly_expenses(user_id, database, month, year)
        savings == RatSub(income, expenses)
        savings_rate == RatMul(RatDiv(savings, income), FromInt(100))
    IN IF income = FromInt(0) THEN FromInt(0)
       ELSE RatMax(FromInt(0), savings_rate)

\* float('inf'), the ratio of a user without income
inf == <<1, 0>>

\* current_date is what datetime.datetime.now().date() gives during the call.
calculate_debt_to_income_ratio(user_id, database, current_date) ==
    LET monthly_income ==
            calculate_monthly_income(user_id, database, current_date[2], current_date[1])
        debts == {d \in database.debts : d.user_id = user_id}
        monthly_debt_payments ==
            SumValues([d \in debts |-> IF d.emi_amount = None THEN 0 ELSE d.emi_amount[1]])
    IN IF monthly_income = FromInt(0) THEN inf
       ELSE RatMul(RatDiv(FromInt(monthly_debt_payments), monthly_income), FromInt(100))

\* .first() of a query without an order: the row with the lowest id.
first(rows) == IF rows = {} THEN None
               ELSE Some(CHOOSE r \in rows : \A o \in rows : r.id <= o.id)

\* Only status and months_covered are kept.  The goal query compares the
\* goal_type column with "emergency_fund", the enum member's value.
calculate_emergency_fund_status(user_id, database, current_date) ==
    LET three_months_ago == DateMinusDays(current_date, 90)
        expenses == {e \in database.expenses :
                        /\ e.user_id = user_id
                        /\ DateLE(three_months_ago, e.date)
                        /\ DateLE(e.date, current_date)}
        total_expenses == SumValues([e \in expenses |-> e.amount])
        avg_monthly_expenses == Rat(total_expenses, 3)
        emergency_fund_goal ==
            first({g \in database.financial_goals :
                      g.user_id = user_id /\ g.goal_type = "emergency_fund"})
        months_covered ==
            IF RatLT(FromInt(0), avg_monthly_expenses)
            THEN RatDiv(FromInt(emergency_fund_goal[1].current_amount), avg_monthly_expenses)
            ELSE FromInt(0)
    IN IF expenses = {} THEN [status |-> "unknown", months_covered |-> FromInt(0)]
       ELSE IF emergency_fund_goal = None
       THEN [status |-> "not_set", months_covered |-> FromInt(0)]
       ELSE [status |-> IF RatLE(FromInt(6), months_covered) THEN "excellent"
                        ELSE IF RatLE(FromInt(3), months_covered) THEN "good"
                        ELSE IF RatLE(FromInt(1), months_covered) THEN "adequate"
                        ELSE "inadequate",
             months_covered |-> months_covered]

\* min(100, (savings_rate / 20) * 100)
savings_score_of(savings_rate) ==
    RatMin(FromInt(100), RatMul(RatDiv(savings_rate, FromInt(20)), FromInt(100)))

\* max(0, 100 - (dti_ratio / 36) * 100); with dti_ratio = inf the difference is
\* -inf and the maximum 0.
dti_score_of(dti_ratio) ==
    IF dti_ratio = inf THEN FromInt(0)
    ELSE RatMax(FromInt(0),
                RatSub(FromInt(100), RatMul(RatDiv(dti_ratio, FromInt(36)), FromInt(100))))

\* The emergency fund score without the cap at 100.
emergency_fund_score_uncapped(months_covered) ==
    RatMul(RatDiv(months_covered, FromInt(6)), FromInt(100))

\* min(100, (months_covered / 6) * 100)
emergency_fund_score_of(months_covered) ==
    RatMin(FromInt(100), RatMul(RatDiv(months_covered, FromInt(6)), FromInt(100)))

calculate_financial_health_score(user_id, database, current_date) ==
    LET savings_rate ==
            calculate_savings_rate(user_id, database, current_date[2], current_date[1])
        savings_score == savings_score_of(savings_rate)
        dti_ratio == calculate_debt_to_income_ratio(user_id, database, current_date)
        dti_score == dti_score_of(dti_ratio)
        emergency_fund == calculate_emergency_fund_status(user_id, database, current_date)
        emergency_fund_score == emergency_fund_score_of(emergency_fund.months_covered)
        overall_score ==
            RatAdd(RatAdd(RatMul(Rat(3, 10), savings_score), RatMul(Rat(3, 10), dti_score)),
                   RatMul(Rat(4, 10), emergency_fund_score))
        status == IF RatLE(FromInt(80), overall_score) THEN "Excellent"
                  ELSE IF RatLE(FromInt(60), overall_score) THEN "Good"
                  ELSE IF RatLE(FromInt(40), overall_score) THEN "Fair"
                  ELSE "Needs Improvement"
    IN [overall_score |-> overall_score,
        status |-> status,
        savings_rate |-> [value |-> savings_rate, score |-> savings_score],
        debt_to_income |-> [value |-> dti_ratio, score |-> dti_score],
        emergency_fund |-> [months_covered |-> emergency_fund.months_covered,
                            score |-> emergency_fund_score]]

CreateExpense(user_id, category, amount, expense_date) ==
    /\ db' = Insert(db, "expenses",
                    [user_id |-> user_id, category |-> category, amount |-> amount,
                     date |-> expense_date])
    /\ call' = [op |-> "create_expense", ret |-> db.next_id["expenses"]]
    /\ UNCHANGED session

CreateFinancialGoal(user_id, goal_type, target_amount, current_amount) ==
    /\ db' = Insert(db, "financial_goals",
                    [user_id |-> user_id, goal_type |-> goal_type,
                     target_amount |-> target_amount, current_amount |-> current_amount])
    /\ call' = [op |-> "create_financial_goal", ret |-> db.next_id["financial_goals"]]
    /\ UNCHANGED session

\* The call records the income and the expenses the function computed, beside
\* what it returned.
CalculateSavingsRate(user_id, month, year) ==
    /\ call' = [op |-> "calculate_savings_rate", user_id |-> user_id,
                month |-> month, year |-> year,
                income |-> calculate_monthly_income(user_id, db, month, year),
                expenses |-> calculate_monthly_expenses(user_id, db, month, year),
                ret |-> calculate_savings_rate(user_id, db, month, year)]
    /\ UNCHANGED <<db, session>>

CalculateFinancialHealthScore(user_id, current_date) ==
    /\ call' = [op |-> "calculate_financial_health_score", user_id |-> user_id,
                current_date |-> current_date,
                monthly_income |->
                    calculate_monthly_income(user_id, db, current_date[2], current_date[1]),
                ret |-> calculate_financial_health_score(user_id, db, current_date)]
    /\ UNCHANGED <<db, session>>

(***************************************************************************)
(* SpecHealth: incomes, expenses, debts and goals are recorded, and the    *)
(* savings rate and the health score computed                              *)
(***************************************************************************)

MaxHealthRows == 3

\* The day the health score is computed on.
HealthToday == date(2024, 8, 20)

HealthRows == Cardinality(db.income_sources) + Cardinality(db.expenses)
              + Cardinality(db.debts) + Cardinality(db.financial_goals)

NextHealth ==
    \/ /\ HealthRows < MaxHealthRows
       /\ \/ \E f \in IncomeFrequencies, ed \in {None, date(2024, 7, 31)} :
                 CreateIncomeSource(1, 60000, f, TRUE, date(2024, 4, 1), ed)
          \/ CreateIncomeSource(2, 60000, "monthly", TRUE, date(2024, 8, 5), None)
    \/ /\ HealthRows < MaxHealthRows
       /\ \/ \E a \in {48000, 90000}, d \in {date(2024, 8, 10), date(2024, 6, 15)} :
                 CreateExpense(1, "Food", a, d)
          \/ CreateExpense(1, "Food", 0, date(2024, 8, 10))
          \/ CreateExpense(2, "Food", 48000, date(2024, 8, 10))
    \/ /\ HealthRows < MaxHealthRows
       /\ \E e \in {None, Some(10800), Some(30000)} :
              CreateDebt(1, "car_loan", 300000, 9, date(2024, 4, 1), None, e, FALSE)
    \/ /\ HealthRows < MaxHealthRows
       /\ \/ \E c \in {48000, 300000} : CreateFinancialGoal(1, "emergency_fund", 300000, c)
          \/ CreateFinancialGoal(1, "retirement", 300000, 300000)
    \/ \E u \in UserIds, m \in {6, 8} : CalculateSavingsRate(u, m, 2024)
    \/ \E u \in UserIds : CalculateFinancialHealthScore(u, HealthToday)

SpecHealth == Init /\ [][NextHealth]_vars

(***************************************************************************)
(* finwise/utils/finance_utils.py: spending anomalies                      *)
(***************************************************************************)

\* expense.date.strftime("%Y-%m"), held as the pair of year and month
month_year_of(d) == <<d[1], d[2]>>

\* category_month_expenses[category]: the total per month of the expenses of
\* one category.
month_data_of(expenses, category) ==
    LET of_category == {e \in expenses : e.category = category}
    IN [my \in {month_year_of(e.date) : e \in of_category} |->
           SumValues([e \in {x \in of_category : month_year_of(x.date) = my} |-> e.amount])]

\* sum((x - avg) ** 2 for x in values) / len(values), the square of std_dev
variance_of(month_data) ==
    LET n == Cardinality(DOMAIN month_data)
        avg == Rat(SumValues(month_data), n)
        squares == [my \in DOMAIN month_data |->
                       RatMul(RatSub(FromInt(month_data[my]), avg),
                              RatSub(FromInt(month_data[my]), avg))]
        RECURSIVE RatSum(_)
        RatSum(f) == IF DOMAIN f = {} THEN FromInt(0)
                     ELSE LET k == CHOOSE x \in DOMAIN f : TRUE
                          IN RatAdd(f[k], RatSum([x \in DOMAIN f \ {k} |-> f[x]]))
    IN RatDiv(RatSum(squares), FromInt(n))

\* z_score >= k, the test with the bound included
z_score_reaches(current_month_expense, month_data, k) ==
    LET avg == Rat(SumValues(month_data), Cardinality(DOMAIN month_data))
        variance == variance_of(month_data)
        excess == RatSub(FromInt(current_month_expense), avg)
    IN IF RatLT(FromInt(0), variance)
       THEN RatLE(FromInt(0), excess)
            /\ RatLE(RatMul(FromInt(k * k), variance), RatMul(excess, excess))
       ELSE 0 >= k

\* z_score > k, where z_score = (current_month_expense - avg) / std_dev if
\* std_dev > 0 else 0.  std_dev is the square root of the variance, so for
\* k >= 0 the test is excess > 0 and excess ** 2 > k ** 2 * variance.
z_score_exceeds(current_month_expense, month_data, k) ==
    LET avg == Rat(SumValues(month_data), Cardinality(DOMAIN month_data))
        variance == variance_of(month_data)
        excess == RatSub(FromInt(current_month_expense), avg)
    IN IF RatLT(FromInt(0), variance)
       THEN RatLT(FromInt(0), excess)
            /\ RatLT(RatMul(FromInt(k * k), variance), RatMul(excess, excess))
       ELSE 0 > k

\* The anomalies as a set: the code returns them in the order in which the
\* query yields the categories.  percent_increase is left out.
detect_spending_anomalies(user_id, database, current_date) ==
    LET six_months_ago == DateMinusDays(current_date, 180)
        expenses == {e \in database.expenses :
                        /\ e.user_id = user_id
                        /\ DateLE(six_months_ago, e.date)
                        /\ DateLE(e.date, current_date)}
        current_month_year == month_year_of(current_date)
        anomalous(category) ==
            LET month_data == month_data_of(expenses, category)
            IN /\ ~(Cardinality(DOMAIN month_data) < 3)
               /\ current_month_year \in DOMAIN month_data
               /\ z_score_exceeds(month_data[current_month_year], month_data, 2)
    IN {[category |-> category,
         month |-> current_month_year,
         amount |-> month_data_of(expenses, category)[current_month_year],
         average |-> Rat(SumValues(month_data_of(expenses, category)),
                         Cardinality(DOMAIN month_data_of(expenses, category))),
         severity |-> IF z_score_exceeds(month_data_of(expenses, category)[current_month_year],
                                         month_data_of(expenses, category), 3)
                      THEN "high" ELSE "medium"] :
           category \in {c \in {e.category : e \in expenses} : anomalous(c)}}

DetectSpendingAnomalies(user_id, current_date) ==
    /\ call' = [op |-> "detect_spending_anomalies", user_id |-> user_id,
                current_date |-> current_date,
                ret |-> detect_spending_anomalies(user_id, db, current_date)]
    /\ UNCHANGED <<db, session>>

(***************************************************************************)
(* SpecAnomalies: expenses are recorded and the anomalies detected         *)
(***************************************************************************)

MaxExpenses == 7

\* The day the anomalies are detected on; 180 days earlier is 2024-02-22.
AnomalyToday == date(2024, 8, 20)

\* One day before the 180 days, one day in each month they touch, a second
\* day in the current month and one day after today.
ExpenseDates ==
    {date(2024, 2, 10), date(2024, 2, 25), date(2024, 3, 15), date(2024, 4, 15),
     date(2024, 5, 15), date(2024, 6, 15), date(2024, 7, 15), date(2024, 8, 10),
     date(2024, 8, 15), date(2024, 8, 25)}

\* The days on which the larger amount is spent as well.
LargeExpenseDates == {date(2024, 3, 15), date(2024, 8, 10), date(2024, 8, 15)}

\* The result depends on the recorded rows only, not on the order of their
\* recording, so the expenses are recorded in the order of their dates.
LaterThanRecorded(d) == \A e \in db.expenses : DateLT(e.date, d)

NextAnomalies ==
    \/ /\ Cardinality(db.expenses) < MaxExpenses
       /\ \E d \in ExpenseDates, a \in {100, 900} :
              /\ a = 900 => d \in LargeExpenseDates
              /\ LaterThanRecorded(d)
              /\ CreateExpense(1, "Food", a, d)
    \/ /\ Cardinality(db.expenses) < MaxExpenses
       /\ \E u \in UserIds :
              /\ LaterThanRecorded(date(2024, 8, 10 + u))
              /\ CreateExpense(u, "Rent", 900, date(2024, 8, 10 + u))
    \/ \E u \in UserIds : DetectSpendingAnomalies(u, AnomalyToday)

SpecAnomalies == Init /\ [][NextAnomalies]_vars

(***************************************************************************)
(* database/operations.py: the accessors of one record by id and user.     *)
(* The functions of the eleven record types differ in the table and in     *)
(* nothing else; the model has one operator per kind of accessor, with the *)
(* table as a parameter.                                                   *)
(***************************************************************************)

\* The tables whose records belong to a user.
RecordTables ==
    {"income_sources", "expenses", "budgets", "investments", "debts", "financial_goals",
     "documents", "insurance_policies", "tax_deductions", "notifications",
     "financial_calendar_events"}

\* notifications has mark_notification_as_read in place of get_ and update_.
GetUpdateTables == RecordTables \ {"notifications"}

\* db.query(Model).filter(Model.id == row_id, Model.user_id == user_id).first()
query_by_id_and_user(database, table, row_id, user_id) ==
    first({r \in database[table] : r.id = row_id /\ r.user_id = user_id})

\* get_income_source, get_expense, ..., get_financial_calendar_event
get_(database, table, row_id, user_id) ==
    query_by_id_and_user(database, table, row_id, user_id)

\* setattr(row, key, value) for every key of kwargs the row has
set_attributes(row, kwargs) ==
    [k \in DOMAIN row |-> IF k \in DOMAIN kwargs THEN kwargs[k] ELSE row[k]]

\* update_income_source, update_expense, ..., update_financial_calendar_event:
\* the database after the call and what the call returns.
update_(database, table, row_id, user_id, kwargs) ==
    LET found == query_by_id_and_user(database, table, row_id, user_id)
    IN IF found # None
       THEN [db |-> [database EXCEPT ![table] =
                        (@ \ {found[1]}) \cup {set_attributes(found[1], kwargs)}],
             ret |-> Some(set_attributes(found[1], kwargs))]
       ELSE [db |-> database, ret |-> None]

\* mark_notification_as_read
mark_notification_as_read(database, notification_id, user_id) ==
    LET found == query_by_id_and_user(database, "notifications", notification_id, user_id)
        read == [found[1] EXCEPT !.is_read = TRUE, !.read_at = Some(database.now + 1)]
    IN IF found # None
       THEN [db |-> [database EXCEPT !.notifications = (@ \ {found[1]}) \cup {read},
                                     !.now = @ + 1],
             ret |-> Some(read)]
       ELSE [db |-> database, ret |-> None]

\* A delete that looks the record up by its id alone.
delete_by_id_alone(database, table, row_id, user_id) ==
    LET found == first({r \in database[table] : r.id = row_id})
    IN IF found # None
       THEN [db |-> [database EXCEPT ![table] = @ \ {found[1]}], ret |-> TRUE]
       ELSE [db |-> database, ret |-> FALSE]

\* delete_income_source, delete_expense, ..., delete_financial_calendar_event
delete_(database, table, row_id, user_id) ==
    LET found == query_by_id_and_user(database, table, row_id, user_id)
    IN IF found # None
       THEN [db |-> [database EXCEPT ![table] = @ \ {found[1]}], ret |-> TRUE]
       ELSE [db |-> database, ret |-> FALSE]

CreateBudget(user_id, category, amount, period) ==
    /\ db' = Insert(db, "budgets",
                    [user_id |-> user_id, category |-> category, amount |-> amount,
                     period |-> period])
    /\ call' = [op |-> "create_budget", ret |-> db.next_id["budgets"]]
    /\ UNCHANGED session

CreateDocument(user_id, name, document_type) ==
    /\ db' = Insert(db, "documents",
                    [user_id |-> user_id, name |-> name, document_type |-> document_type])
    /\ call' = [op |-> "create_document", ret |-> db.next_id["documents"]]
    /\ UNCHANGED session

\* is_read defaults to False, read_at to NULL.
CreateNotification(user_id, title) ==
    /\ db' = Insert(db, "notifications",
                    [user_id |-> user_id, title |-> title, is_read |-> FALSE,
                     read_at |-> None])
    /\ call' = [op |-> "create_notification", ret |-> db.next_id["notifications"]]
    /\ UNCHANGED session

CreateFinancialCalendarEvent(user_id, title, event_date) ==
    /\ db' = Insert(db, "financial_calendar_events",
                    [user_id |-> user_id, title |-> title, event_date |-> event_date])
    /\ call' = [op |-> "create_financial_calendar_event",
                ret |-> db.next_id["financial_calendar_events"]]
    /\ UNCHANGED session

GetRecord(table, row_id, user_id) ==
    /\ call' = [op |-> "get", table |-> table, id |-> row_id, user_id |-> user_id,
                ret |-> get_(db, table, row_id, user_id)]
    /\ UNCHANGED <<db, session>>

UpdateRecord(table, row_id, user_id, kwargs) ==
    /\ db' = update_(db, table, row_id, user_id, kwargs).db
    /\ call' = [op |-> "update", table |-> table, id |-> row_id, user_id |-> user_id,
                ret |-> update_(db, table, row_id, user_id, kwargs).ret]
    /\ UNCHANGED session

MarkNotificationAsRead(notification_id, user_id) ==
    /\ db' = mark_notification_as_read(db, notification_id, user_id).db
    /\ call' = [op |-> "update", table |-> "notifications", id |-> notification_id,
                user_id |-> user_id,
                ret |-> mark_notification_as_read(db, notification_id, user_id).ret]
    /\ UNCHANGED session

DeleteRecord(table, row_id, user_id) ==
    /\ db' = delete_(db, table, row_id, user_id).db
    /\ call' = [op |-> "delete", table |-> table, id |-> row_id, user_id |-> user_id,
                ret |-> delete_(db, table, row_id, user_id).ret]
    /\ UNCHANGED session

(***************************************************************************)
(* SpecRecords: records of every type are created, read, updated and       *)
(* deleted by the two users                                                *)
(***************************************************************************)

MaxRecords == 2

\* The records created so far, the deleted ones included.
Records == SumValues([t \in RecordTables |-> db.next_id[t] - 1])

\* The clock advances with every notification marked as read.
MaxReads == 2

RecordIds == 1..MaxRecords

\* The keyword arguments of an update: a column of the record, or a name
\* that is no attribute of it.
UpdateKwargs(table) ==
    {[no_such_attribute |-> 1]} \cup
    (CASE table \in {"income_sources", "expenses", "budgets", "investments",
                     "tax_deductions"} -> {[amount |-> 777]}
       [] table = "debts" -> {[remaining_amount |-> 777]}
       [] table = "financial_goals" -> {[current_amount |-> 777]}
       [] table = "insurance_policies" -> {[premium_amount |-> 777]}
       [] table = "documents" -> {[name |-> "renamed"]}
       [] table = "financial_calendar_events" -> {[title |-> "renamed"]})

CreateRecord(table, u) ==
    CASE table = "income_sources" ->
             CreateIncomeSource(u, 600000, "monthly", TRUE, date(2024, 4, 1), None)
      [] table = "expenses" -> CreateExpense(u, "Food", 100, date(2024, 8, 10))
      [] table = "budgets" -> CreateBudget(u, "Food", 5000, "monthly")
      [] table = "investments" -> CreateInvestment(u, 100000)
      [] table = "debts" ->
             CreateDebt(u, "car_loan", 300000, 9, date(2024, 4, 1), None, Some(10000), FALSE)
      [] table = "financial_goals" -> CreateFinancialGoal(u, "emergency_fund", 300000, 0)
      [] table = "documents" -> CreateDocument(u, "form16", "tax_document")
      [] table = "insurance_policies" ->
             CreateInsurance(u, "health", 12000, "annually", date(2024, 4, 1), None, TRUE)
      [] table = "tax_deductions" -> CreateTaxDeduction(u, "SEC_80C", 100000, TAX_YEAR)
      [] table = "notifications" -> CreateNotification(u, "Bill due")
      [] table = "financial_calendar_events" ->
             CreateFinancialCalendarEvent(u, "Advance tax", date(2024, 9, 15))

\* The accessors are called on the tables that have had a record; an id that
\* does not exist there is an id not yet given or the id of a deleted record.
Used(table) == db.next_id[table] > 1

NextRecords ==
    \/ /\ Records < MaxRecords
       /\ \E t \in RecordTables, u \in UserIds : CreateRecord(t, u)
    \/ \E t \in GetUpdateTables, i \in RecordIds, u \in UserIds :
           Used(t) /\ GetRecord(t, i, u)
    \/ \E t \in GetUpdateTables, i \in RecordIds, u \in UserIds :
           Used(t) /\ \E kw \in UpdateKwargs(t) : UpdateRecord(t, i, u, kw)
    \/ /\ db.now < MaxReads
       /\ Used("notifications")
       /\ \E i \in RecordIds, u \in UserIds : MarkNotificationAsRead(i, u)
    \/ \E t \in RecordTables, i \in RecordIds, u \in UserIds :
           Used(t) /\ DeleteRecord(t, i, u)

SpecRecords == Init /\ [][NextRecords]_vars

(***************************************************************************)
(* utils/auth_utils.py, streamlit_app.py and the page functions: what a    *)
(* run of the script shows, reads and writes                               *)
(***************************************************************************)

\* The page functions of the menu that come with their source.
Pages == {"Dashboard", "Income", "Expenses", "Budget", "Investments", "Tax Planning"}

\* The table whose records the page lists and its form writes to.
page_table(page) ==
    CASE page = "Dashboard" -> "expenses"
      [] page = "Income" -> "income_sources"
      [] page = "Expenses" -> "expenses"
      [] page = "Budget" -> "budgets"
      [] page = "Investments" -> "investments"
      [] page = "Tax Planning" -> "tax_deductions"

\* The record the page's form stores for the user when it is submitted.
form_row(page, user_id) ==
    CASE page = "Income" ->
             [user_id |-> user_id, amount |-> 600000, frequency |-> "monthly",
              is_taxable |-> TRUE, start_date |-> date(2024, 4, 1), end_date |-> None]
      [] page = "Expenses" ->
             [user_id |-> user_id, category |-> "Food", amount |-> 100,
              date |-> date(2024, 8, 10)]
      [] page = "Budget" ->
             [user_id |-> user_id, category |-> "Food", amount |-> 5000,
              period |-> "monthly"]
      [] page = "Investments" ->
             [user_id |-> user_id, amount |-> 100000, current_value |-> Some(100000)]
      [] page = "Tax Planning" ->
             [user_id |-> user_id, deduction_type |-> "SEC_80C", amount |-> 100000,
              financial_year |-> TAX_YEAR]

\* One thing a run does: a form or a warning or page content it shows, a
\* read or a write of the records of a user in a table.
run_event(kind, table, user_id) == [kind |-> kind, table |-> table, user_id |-> user_id]

\* A require_auth that warns and lets the run go on.
require_auth_warns_only(sess) ==
    IF ~sess.is_authenticated
    THEN [events |-> <<run_event("warning", "", 0)>>, stopped |-> FALSE]
    ELSE [events |-> << >>, stopped |-> FALSE]

\* require_auth: st.warning and st.stop when the session is not authenticated.
require_auth(sess) ==
    IF ~sess.is_authenticated
    THEN [events |-> <<run_event("warning", "", 0)>>, stopped |-> TRUE]
    ELSE [events |-> << >>, stopped |-> FALSE]

\* get_user_by_id
get_user_by_id(database, user_id) == first({u \in database.users : u.id = user_id})

\* get_current_user
get_current_user(database, sess) ==
    IF sess.user_id # None THEN get_user_by_id(database, sess.user_id[1]) ELSE None

\* show_dashboard, show_income_page, show_expenses_page, show_budget_page,
\* show_investments_page, show_tax_planning_page: require_auth, then the
\* header, the user's records, and the record of a submitted form.  The
\* dashboard has no form.
show_page(database, sess, page, user_id, submitted) ==
    LET auth == require_auth(sess)
        stores == submitted /\ page # "Dashboard"
    IN IF auth.stopped
       THEN [db |-> database, events |-> auth.events]
       ELSE [db |-> IF stores
                    THEN Insert(database, page_table(page), form_row(page, user_id))
                    ELSE database,
             events |-> auth.events
                        \o <<run_event("content", page, user_id),
                             run_event("read", page_table(page), user_id)>>
                        \o IF stores
                           THEN <<run_event("write", page_table(page), user_id)>>
                           ELSE << >>]

\* main: the login and register forms while is_authenticated is false,
\* otherwise the current user, the sidebar and the selected page.
main(database, sess, selected, submitted) ==
    IF ~sess.is_authenticated
    THEN [db |-> database,
          events |-> <<run_event("login_form", "", 0), run_event("register_form", "", 0)>>]
    ELSE LET user == get_current_user(database, sess)[1]
             page == show_page(database, sess, selected, user.id, submitted)
         IN [db |-> page.db,
             events |-> <<run_event("read", "users", user.id),
                          run_event("content", "sidebar", user.id)>> \o page.events]

\* A run of the script with this page selected in the menu.
RunMain(selected, submitted) ==
    /\ db' = main(db, session, selected, submitted).db
    /\ call' = [op |-> "main", page |-> selected, submitted |-> submitted,
                events |-> main(db, session, selected, submitted).events]
    /\ UNCHANGED session

\* A page function called for a user, whatever the session.
ShowPage(page, user_id, submitted) ==
    /\ db' = show_page(db, session, page, user_id, submitted).db
    /\ call' = [op |-> "page", page |-> page, submitted |-> submitted,
                events |-> show_page(db, session, page, user_id, submitted).events]
    /\ UNCHANGED session

(***************************************************************************)
(* SpecPages: the two users log in and out, the script runs with a page    *)
(* selected, and the page functions are called                             *)
(***************************************************************************)

MaxFormSubmits == 2

NextPages ==
    \/ /\ db.now < MaxLogins
       /\ \E e \in Emails, p \in Passwords \cup {""} : SubmitLoginForm(e, p)
    \/ LogoutButton
    \/ \E selected \in Pages, submitted \in BOOLEAN :
           /\ submitted => Records < MaxFormSubmits
           /\ RunMain(selected, submitted)
    \/ \E page \in Pages, u \in UserIds, submitted \in BOOLEAN :
           /\ submitted => Records < MaxFormSubmits
           /\ ShowPage(page, u, submitted)

SpecPages == Init /\ [][NextPages]_vars

(***************************************************************************)
(* pages/auth/register.py: the registration form                           *)
(***************************************************************************)

\* The text of a form field is a sequence of characters; the empty field is
\* the empty sequence.
ascii_uppercase ==
    {"A", "B", "C", "D", "E", "F", "G", "H", "I", "J", "K", "L", "M",
     "N", "O", "P", "Q", "R", "S", "T", "U", "V", "W", "X", "Y", "Z"}

ascii_lowercase ==
    {"a", "b", "c", "d", "e", "f", "g", "h", "i", "j", "k", "l", "m",
     "n", "o", "p", "q", "r", "s", "t", "u", "v", "w", "x", "y", "z"}

ascii_digits == {"0", "1", "2", "3", "4", "5", "6", "7", "8", "9"}

\* str.isupper, str.islower and str.isdigit of one character of a field.
isupper(c) == c \in ascii_uppercase

islower(c) == c \in ascii_lowercase

isdigit(c) == c \in ascii_digits

\* Every character of s[from..to] is of the class, and there is at least one.
one_or_more(s, from, to, class) ==
    /\ from <= to
    /\ \A k \in from..to : s[k] \in class

\* The character classes of the email pattern.
alnum == ascii_lowercase \cup ascii_uppercase \cup ascii_digits

email_local_class == alnum \cup {"_", ".", "+", "-"}

email_domain_class == alnum \cup {"-"}

email_suffix_class == alnum \cup {"-", "."}

\* re.match(r"^[a-zA-Z0-9_.+-]+@[a-zA-Z0-9-]+\.[a-zA-Z0-9-.]+$", email)
is_valid_email(email) ==
    \E at \in 1..Len(email), dot \in 1..Len(email) :
       /\ at < dot
       /\ email[at] = "@"
       /\ email[dot] = "."
       /\ one_or_more(email, 1, at - 1, email_local_class)
       /\ one_or_more(email, at + 1, dot - 1, email_domain_class)
       /\ one_or_more(email, dot + 1, Len(email), email_suffix_class)

\* is_valid_password: (valid, message)
is_valid_password(password) ==
    IF Len(password) < 8
    THEN <<FALSE, "Password must be at least 8 characters long">>
    ELSE IF ~\E k \in 1..Len(password) : isupper(password[k])
    THEN <<FALSE, "Password must contain at least one uppercase letter">>
    ELSE IF ~\E k \in 1..Len(password) : islower(password[k])
    THEN <<FALSE, "Password must contain at least one lowercase letter">>
    ELSE IF ~\E k \in 1..Len(password) : isdigit(password[k])
    THEN <<FALSE, "Password must contain at least one number">>
    ELSE <<TRUE, "">>

\* is_valid_pan: re.match(r"^[A-Z]{5}[0-9]{4}[A-Z]{1}$", pan) unless empty
is_valid_pan(pan) ==
    IF pan = << >>
    THEN <<TRUE, "">>
    ELSE IF ~(/\ Len(pan) = 10
              /\ \A k \in 1..5 : pan[k] \in ascii_uppercase
              /\ \A k \in 6..9 : pan[k] \in ascii_digits
              /\ pan[10] \in ascii_uppercase)
    THEN <<FALSE, "PAN should be in the format AAAAA0000A">>
    ELSE <<TRUE, "">>

\* is_valid_aadhar
is_valid_aadhar(aadhar) ==
    IF aadhar = << >>
    THEN <<TRUE, "">>
    ELSE IF ~(\A k \in 1..Len(aadhar) : isdigit(aadhar[k])) \/ Len(aadhar) # 12
    THEN <<FALSE, "Aadhar should be a 12-digit number">>
    ELSE <<TRUE, "">>

\* get_user_by_username
get_user_by_username(database, username) ==
    first({u \in database.users : u.username = username})

check_email_exists(database, email) == get_user_by_email(database, email) # None

check_username_exists(database, username) ==
    get_user_by_username(database, username) # None

\* A registration that checks the password before it looks the email and
\* the username up.
register_password_first(database, sess, email, username, password, confirm_password, pan, aadhar) ==
    LET rejected(message) == [db |-> database, session |-> sess, message |-> message]
        created == Insert(database, "users", new_user(database, email, username, password))
        logged_in == login(created, sess, email, password)
    IN IF email = << >> \/ username = << >> \/ password = << >> \/ confirm_password = << >>
       THEN rejected("Please fill in all required fields")
       ELSE IF ~is_valid_email(email)
       THEN rejected("Please enter a valid email address")
       ELSE IF ~is_valid_password(password)[1]
       THEN rejected(is_valid_password(password)[2])
       ELSE IF check_email_exists(database, email)
       THEN rejected("Email already registered. Please use a different email or login")
       ELSE IF check_username_exists(database, username)
       THEN rejected("Username already taken. Please choose a different username")
       ELSE IF password # confirm_password
       THEN rejected("Passwords do not match")
       ELSE IF ~is_valid_pan(pan)[1]
       THEN rejected(is_valid_pan(pan)[2])
       ELSE IF ~is_valid_aadhar(aadhar)[1]
       THEN rejected(is_valid_aadhar(aadhar)[2])
       ELSE [db |-> logged_in.db, session |-> logged_in.session,
             message |-> IF logged_in.ret
                         THEN "Registration successful! You are now logged in."
                         ELSE "Registration successful but automatic login failed. Please login manually."]

\* show_register_page with the form submitted: the checks in the order of
\* the code, each returning with its message; then create_user and login.
show_register_page(database, sess, email, username, password, confirm_password, pan, aadhar) ==
    LET rejected(message) == [db |-> database, session |-> sess, message |-> message]
        created == Insert(database, "users", new_user(database, email, username, password))
        logged_in == login(created, sess, email, password)
    IN IF email = << >> \/ username = << >> \/ password = << >> \/ confirm_password = << >>
       THEN rejected("Please fill in all required fields")
       ELSE IF ~is_valid_email(email)
       THEN rejected("Please enter a valid email address")
       ELSE IF check_email_exists(database, email)
       THEN rejected("Email already registered. Please use a different email or login")
       ELSE IF check_username_exists(database, username)
       THEN rejected("Username already taken. Please choose a different username")
       ELSE IF ~is_valid_password(password)[1]
       THEN rejected(is_valid_password(password)[2])
       ELSE IF password # confirm_password
       THEN rejected("Passwords do not match")
       ELSE IF ~is_valid_pan(pan)[1]
       THEN rejected(is_valid_pan(pan)[2])
       ELSE IF ~is_valid_aadhar(aadhar)[1]
       THEN rejected(is_valid_aadhar(aadhar)[2])
       ELSE [db |-> logged_in.db, session |-> logged_in.session,
             message |-> IF logged_in.ret
                         THEN "Registration successful! You are now logged in."
                         ELSE "Registration successful but automatic login failed. Please login manually."]

\* The Register button of the form, which main renders only while
\* is_authenticated is false.
SubmitRegisterForm(email, username, password, confirm_password, pan, aadhar) ==
    LET r == show_register_page(db, session, email, username, password,
                                confirm_password, pan, aadhar)
    IN /\ ~session.is_authenticated
       /\ db' = r.db
       /\ session' = r.session
       /\ call' = [op |-> "register", email |-> email, username |-> username,
                   password |-> password, confirm_password |-> confirm_password,
                   pan |-> pan, aadhar |-> aadhar, ret |-> r.message]

(***************************************************************************)
(* SpecRegister: visitors submit the registration form and log out         *)
(***************************************************************************)

MaxRegistrations == 2

FormEmails ==
    {<<"a", "@", "x", ".", "i", "n">>, <<"b", "@", "x", ".", "i", "n">>,
     <<"a", "@", "x", "i", "n">>, << >>}

FormUsernames == {<<"a", "s", "h", "a">>, <<"b", "a", "l", "a">>, << >>}

FormPasswords ==
    {<<"P", "a", "s", "s", "1", "2", "3", "4">>, <<"P", "a", "s", "1">>,
     <<"p", "a", "s", "s", "1", "2", "3", "4">>, <<"P", "A", "S", "S", "1", "2", "3", "4">>,
     <<"P", "a", "s", "s", "w", "o", "r", "d">>, << >>}

FormConfirmations(password) == {password, <<"P", "a", "s", "s", "1", "2", "3", "5">>, << >>}

FormPans ==
    {<< >>, <<"A", "B", "C", "D", "E", "1", "2", "3", "4", "F">>,
     <<"A", "B", "C", "D", "1", "2", "3", "4", "5", "F">>}

FormAadhars ==
    {<< >>, <<"1", "2", "3", "4", "5", "6", "7", "8", "9", "0", "1", "2">>,
     <<"1", "2", "3", "4", "5", "6", "7", "8", "9", "0", "1">>,
     <<"1", "2", "3", "4", "5", "6", "7", "8", "9", "0", "1", "x">>}

\* The form as most visitors submit it has a password that passes, the same
\* confirmation and no PAN and no Aadhar; a submitted form differs from it in
\* at most MaxVariations of these four fields, and in any way in the email
\* and the username.
MaxVariations == 2

Variations(password, confirm_password, pan, aadhar) ==
    (IF is_valid_password(password)[1] THEN 0 ELSE 1)
    + (IF confirm_password = password THEN 0 ELSE 1)
    + (IF pan = << >> THEN 0 ELSE 1)
    + (IF aadhar = << >> THEN 0 ELSE 1)

NextRegister ==
    \/ /\ Cardinality(db.users) < MaxRegistrations
       /\ \E p \in FormPasswords, pan \in FormPans, a \in FormAadhars :
             \E c \in FormConfirmations(p) :
                /\ Variations(p, c, pan, a) <= MaxVariations
                /\ \E e \in FormEmails, n \in FormUsernames :
                       SubmitRegisterForm(e, n, p, c, pan, a)
    \/ LogoutButton

SpecRegister == InitAuth /\ [][NextRegister]_vars

(***************************************************************************)
(* pages/investments.py: the Add New Investment form                       *)
(***************************************************************************)

\* The parameters of create_investment.
create_investment_parameters ==
    {"db", "user_id", "name", "investment_type", "amount", "purchase_date",
     "maturity_date", "interest_rate", "is_tax_saving", "tax_section", "is_sip",
     "sip_amount", "sip_frequency", "description"}

\* create_investment called with keyword arguments: a keyword that is no
\* parameter of the function raises TypeError before its body runs;
\* otherwise the row is stored with current_value = amount.
create_investment(database, kwargs) ==
    IF ~(DOMAIN kwargs \subseteq create_investment_parameters)
    THEN [db |-> database, raised |-> "TypeError", ret |-> None]
    ELSE [db |-> Insert(database, "investments",
                        [user_id |-> kwargs.user_id, amount |-> kwargs.amount,
                         current_value |-> Some(kwargs.amount)]),
          raised |-> "", ret |-> Some(database.next_id["investments"])]

\* The keyword arguments of the form's call of create_investment, the ones
\* that hold what the visitor entered.
add_investment_kwargs(user_id, name, amount, current_value) ==
    [db |-> "db_session", user_id |-> user_id, name |-> name, amount |-> amount,
     current_value |-> IF current_value > 0 THEN current_value ELSE amount]

\* The submitted form of show_manage_investments: the database it leaves,
\* the message it shows and the exception that ends the run, if any.
add_investment_form(database, user_id, name, amount, current_value) ==
    LET created == create_investment(database,
                                     add_investment_kwargs(user_id, name, amount,
                                                           current_value))
    IN IF name = ""
       THEN [db |-> database, raised |-> "",
             message |-> "Please enter an investment name"]
       ELSE IF amount <= 0
       THEN [db |-> database, raised |-> "",
             message |-> "Initial investment amount must be greater than zero"]
       ELSE IF created.raised # ""
       THEN [db |-> database, raised |-> created.raised, message |-> ""]
       ELSE [db |-> created.db, raised |-> "",
             message |-> "Investment added successfully!"]

\* The Add Investment button, on the page main shows to the logged-in user.
SubmitAddInvestmentForm(name, amount, current_value) ==
    LET r == add_investment_form(db, session.user_id[1], name, amount, current_value)
    IN /\ session.is_authenticated
       /\ db' = r.db
       /\ call' = [op |-> "add_investment_form", user_id |-> session.user_id[1],
                   name |-> name, amount |-> amount, current_value |-> current_value,
                   raised |-> r.raised, message |-> r.message]
       /\ UNCHANGED session

(***************************************************************************)
(* SpecInvestments: the two users log in and out and submit the Add New    *)
(* Investment form                                                         *)
(***************************************************************************)

\* The number inputs of the form have min_value = 0.
InvestmentNames == {"", "PPF", "NPS"}
InvestmentAmounts == {0, 100000, 400000}
InvestmentCurrentValues == {0, 250000, 500000}

NextInvestments ==
    \/ /\ db.now < MaxLogins
       /\ \E e \in Emails, p \in Passwords \cup {""} : SubmitLoginForm(e, p)
    \/ LogoutButton
    \/ /\ Cardinality(db.investments) < MaxHoldings
       /\ \E n \in InvestmentNames, a \in InvestmentAmounts,
             v \in InvestmentCurrentValues : SubmitAddInvestmentForm(n, a, v)

SpecInvestments == Init /\ [][NextInvestments]_vars

(***************************************************************************)
(* utils/tax_utils.py and finwise/pages/tax_planning.py: the tax calendar  *)
(***************************************************************************)

\* The events in list order; only the date and the title are kept.
generate_tax_timeline(financial_year) ==
    LET fy_start_year == int(split(financial_year, "-")[1])
        fy_end_year == int(split(financial_year, "-")[2])
    IN << [date |-> date(fy_start_year, 6, 15), title |-> "Advance Tax - First Installment"],
          [date |-> date(fy_start_year, 9, 15), title |-> "Advance Tax - Second Installment"],
          [date |-> date(fy_start_year, 12, 15), title |-> "Advance Tax - Third Installment"],
          [date |-> date(fy_end_year, 3, 15), title |-> "Advance Tax - Fourth Installment"],
          [date |-> date(fy_end_year, 3, 31), title |-> "Tax-Saving Investments Deadline"],
          [date |-> date(fy_end_year, 7, 31),
           title |-> "Income Tax Return Filing - Non-Audit Cases"] >>

\* The dictionary months of show_tax_timeline_tab, from month names to numbers.
months_by_name ==
    [January |-> 1, February |-> 2, March |-> 3, April |-> 4, May |-> 5, June |-> 6,
     July |-> 7, August |-> 8, September |-> 9, October |-> 10, November |-> 11,
     December |-> 12]

\* The events the calendar view lists under the selected month.
month_events(timeline, selected_year, selected_month) ==
    LET year_start == split(selected_year, "-")[1]
        year_end == split(selected_year, "-")[2]
        month_number == months_by_name[selected_month]
        calendar_year == IF month_number < 4 THEN int(year_end) ELSE int(year_start)
    IN SelectSeq(timeline,
                 LAMBDA event : event.date[2] = month_number /\ event.date[1] = calendar_year)

CountMonthsActive(source_start, source_end, fy_start, fy_end) ==
    /\ call' = [op |-> "count_months_active", source_start |-> source_start,
                source_end |-> source_end, fy_start |-> fy_start, fy_end |-> fy_end,
                ret |-> count_months_active(source_start, source_end, fy_start, fy_end)]
    /\ UNCHANGED <<db, session>>

GenerateTaxTimeline(financial_year) ==
    /\ call' = [op |-> "generate_tax_timeline", financial_year |-> financial_year,
                ret |-> generate_tax_timeline(financial_year)]
    /\ UNCHANGED <<db, session>>

ShowTaxTimelineTab(selected_year, selected_month) ==
    /\ call' = [op |-> "show_tax_timeline_tab", selected_year |-> selected_year,
                selected_month |-> selected_month,
                timeline |-> generate_tax_timeline(selected_year),
                month_events |-> month_events(generate_tax_timeline(selected_year),
                                              selected_year, selected_month)]
    /\ UNCHANGED <<db, session>>

(***************************************************************************)
(* SpecTools: the month count, the tax calendar and the loan calculator,   *)
(* each applied to inputs drawn from bounded sets                          *)
(***************************************************************************)

SourceStartDates ==
    {date(2023, 6, 10), date(2024, 4, 1), date(2024, 6, 20), date(2024, 7, 15),
     date(2025, 2, 10)}
SourceEndDates ==
    {None, date(2024, 3, 31), date(2024, 8, 5), date(2024, 9, 10), date(2025, 3, 31)}
ToolYears == PageTaxYears \cup {FY_2024_2025}

MaxTenure == 3

\* Annual rates in percent whose monthly rate is 0, 1/2 and 1: the powers of
\* 1 + monthly_rate then stay small fractions.
LoanPrincipals == {1200, 3000}
LoanRates == {0, 600, 1200}

\* Annual returns in percent whose monthly rate is 0 and 1, and tenures and
\* instalments for which the powers of 1 + monthly_rate stay in range.
SipMonthlyInvestments == {1, 5}
SipRates == {0, 1200}
SipYears == {1, 2}

NextTools ==
    \/ \E s \in SourceStartDates, e \in SourceEndDates, fy \in ToolYears :
           CountMonthsActive(s, e, fy_window(fy).start_date, fy_window(fy).end_date)
    \/ \E fy \in ToolYears : GenerateTaxTimeline(fy)
    \/ \E fy \in ToolYears, m \in DOMAIN months_by_name : ShowTaxTimelineTab(fy, m)
    \/ \E p \in LoanPrincipals, r \in LoanRates, n \in 1..MaxTenure :
           CalculateLoanAmortization(p, r, n)
    \/ \E m \in SipMonthlyInvestments, r \in SipRates, y \in SipYears :
           CalculateSipReturns(m, r, y)

SpecTools == Init /\ [][NextTools]_vars

(***************************************************************************)
(* Claims about the pure calculators (SpecCalc)                            *)
(***************************************************************************)

\* The progressive slab tax: slab rate times the portion of the income lying
\* between the previous slab's limit (0 for the first) and this slab's limit.
progressive_slab_tax(slabs, taxable_income) ==
    SumSeq([i \in 1..Len(slabs) |->
               PercentOf(Max(0, Min(taxable_income, slabs[i].limit)
                                - (IF i = 1 THEN 0 ELSE slabs[i - 1].limit)),
                         slabs[i].rate)])

\* C1: for every taxable income T >= 0, calculate_tax_old_regime(T) and
\* calculate_tax_new_regime(T) each equal the progressive slab tax of their
\* regime.
C1_SlabTaxIsProgressive ==
    /\ call.op = "calculate_tax_old_regime"
          => call.ret = progressive_slab_tax(OLD_REGIME_SLABS, call.taxable_income)
    /\ call.op = "calculate_tax_new_regime"
          => call.ret = progressive_slab_tax(NEW_REGIME_SLABS, call.taxable_income)

\* C6: the old-regime taxable income is max(0, gross - the sum of every entry of
\* the deductions dictionary, the standard deduction included), the new-regime
\* taxable income is max(0, gross - 50,000), and neither is ever negative.
C6_TaxableIncomeClamped ==
    /\ call.op = "calculate_taxable_income_old_regime" =>
          LET d == call.deductions
              total == d["80C"] + d["80D"] + d["80E"] + d["80EE"] + d["80G"] + d["80CCD"]
                       + d["HRA"] + d["LTA"] + d["HOME_LOAN_INTEREST"] + d["OTHER"]
                       + d["STANDARD_DEDUCTION"]
          IN /\ call.ret >= 0
             /\ call.gross_income >= total => call.ret = call.gross_income - total
             /\ call.gross_income < total => call.ret = 0
    /\ call.op = "calculate_taxable_income_new_regime" =>
          /\ call.ret >= 0
          /\ call.gross_income >= 50000 => call.ret = call.gross_income - 50000
          /\ call.gross_income < 50000 => call.ret = 0

\* C6 witness: deductions exceeding a positive gross income, clamped to 0.
C6_Witness ==
    /\ call.op = "calculate_taxable_income_old_regime"
    /\ call.gross_income > 0
    /\ SumValues(call.deductions) > call.gross_income
    /\ call.deductions["80C"] > 0
    /\ call.ret = 0

\* C8: the HRA exemption is the least of the HRA received, the rent paid above
\* 10% of the basic salary (at least 0) and 50% (metro) or 40% (non-metro) of
\* the basic salary; for non-negative inputs it lies between 0 and the HRA
\* received.  Stated on ten times each amount, to stay in whole numbers.
C8_HraExemptionIsLeastOfThree ==
    call.op = "calculate_hra_exemption" =>
        LET received10 == 10 * call.hra_received
            excess_rent10 == Max(0, 10 * call.rent_paid - call.basic_salary)
            salary_share10 == call.basic_salary * (IF call.is_metro THEN 5 ELSE 4)
        IN /\ 10 * call.ret <= received10
           /\ 10 * call.ret <= excess_rent10
           /\ 10 * call.ret <= salary_share10
           /\ 10 * call.ret \in {received10, excess_rent10, salary_share10}
           /\ 0 <= call.ret
           /\ call.ret <= call.hra_received

\* C8 witness: a metro case decided by the rent in excess of 10% of the salary.
C8_Witness ==
    /\ call.op = "calculate_hra_exemption"
    /\ call.is_metro
    /\ call.ret > 0
    /\ call.ret < call.hra_received
    /\ 10 * call.ret = 10 * call.rent_paid - call.basic_salary
    /\ 10 * call.ret < call.basic_salary * 5

(***************************************************************************)
(* Claims about the liability (Spec)                                       *)
(***************************************************************************)

\* The surcharge rate, in percent, the claim gives for a taxable income.
claimed_surcharge_rate(taxable_income) ==
    IF taxable_income <= 5000000 THEN 0
    ELSE IF taxable_income <= 10000000 THEN 10
    ELSE IF taxable_income <= 20000000 THEN 15
    ELSE IF taxable_income <= 50000000 THEN 25
    ELSE 37

\* surcharge, cess and total_tax of one regime's entry, layered on its tax.
LayeredOnTax(regime) ==
    /\ regime.tax % 100 = 0
    /\ regime.surcharge = (regime.tax \div 100) * claimed_surcharge_rate(regime.taxable_income)
    /\ regime.cess * 100 = (regime.tax + regime.surcharge) * 4
    /\ regime.total_tax = regime.tax + regime.surcharge + regime.cess

\* C2: in calculate_tax_liability, for each regime, surcharge = slab tax x the
\* rate of the first surcharge slab whose limit is >= the regime's taxable
\* income (0% up to 5,000,000; 10% up to 10,000,000; 15% up to 20,000,000; 25%
\* up to 50,000,000; 37% above), cess = 4% of (tax + surcharge), and
\* total_tax = tax + surcharge + cess.
C2_SurchargeAndCessLayering ==
    call.op = "calculate_tax_liability" =>
        /\ LayeredOnTax(call.ret.old_regime)
        /\ LayeredOnTax(call.ret.new_regime)

\* C2 witness: a liability whose taxable income is above 50,000,000 (37%), with
\* a surcharge and a cess under both regimes.
C2_Witness ==
    /\ call.op = "calculate_tax_liability"
    /\ call.ret.new_regime.taxable_income > 50000000
    /\ call.ret.new_regime.surcharge > 0
    /\ call.ret.new_regime.cess > 0
    /\ call.ret.old_regime.surcharge > 0
    /\ call.ret.old_regime.total_tax > call.ret.old_regime.tax + call.ret.old_regime.surcharge

\* C7: better_regime is "old" when the old regime's total tax is <= the new
\* regime's and "new" otherwise, so the regime named never has the strictly
\* higher total tax, and tax_savings = |old total_tax - new total_tax| >= 0.
C7_BetterRegimeHasLowerTax ==
    call.op = "calculate_tax_liability" =>
        LET old == call.ret.old_regime.total_tax
            new == call.ret.new_regime.total_tax
        IN /\ call.ret.better_regime \in {"old", "new"}
           /\ (call.ret.better_regime = "old") <=> (old <= new)
           /\ call.ret.better_regime = "old" => ~(old > new)
           /\ call.ret.better_regime = "new" => ~(new > old)
           /\ call.ret.tax_savings >= 0
           /\ call.ret.tax_savings \in {old - new, new - old}

\* C7 witness: the new regime is the better one, by a positive saving.
C7_Witness ==
    /\ call.op = "calculate_tax_liability"
    /\ call.ret.better_regime = "new"
    /\ call.ret.tax_savings > 0
    /\ call.ret.old_regime.total_tax > call.ret.new_regime.total_tax

(***************************************************************************)
(* Claims about the deductions (SpecDeductions)                            *)
(***************************************************************************)

\* C3: in the dictionary get_tax_deductions returns each capped section is at
\* most its cap, whatever the user has recorded: 80C <= 150,000, 80D <= 25,000,
\* 80CCD <= 50,000 and HOME_LOAN_INTEREST <= 200,000.
C3_SectionsCapped ==
    call.op = "get_tax_deductions" =>
        /\ call.ret["80C"] <= 150000
        /\ call.ret["80D"] <= 25000
        /\ call.ret["80CCD"] <= 50000
        /\ call.ret["HOME_LOAN_INTEREST"] <= 200000

(***************************************************************************)
(* Claims about the income of a year (SpecIncome)                          *)
(***************************************************************************)

\* The window of a financial year 'YYYY-YY': 1 April YYYY through 31 March of
\* the following calendar year.
claimed_window(financial_year) ==
    LET yyyy == int(split(financial_year, "-")[1])
    IN [start_date |-> date(yyyy, 4, 1), end_date |-> date(yyyy + 1, 3, 31)]

\* C4: for a financial year of the form 'YYYY-YY', calculate_total_income and
\* get_tax_deductions evaluate over 1 April YYYY through 31 March of the
\* following calendar year (for '2024-25': 2024-04-01 .. 2025-03-31).
C4_WindowOfFinancialYear ==
    /\ call.op \in {"calculate_total_income", "get_tax_deductions"}
          /\ call.financial_year \in PageTaxYears
          => call.window = claimed_window(call.financial_year)
    /\ call.op \in {"calculate_total_income", "get_tax_deductions"}
          /\ call.financial_year = TAX_YEAR
          => call.window = [start_date |-> date(2024, 4, 1), end_date |-> date(2025, 3, 31)]

\* The income the claim gives one source over a window.
claimed_source_income(s, w) ==
    LET months == count_months_active(s.start_date, s.end_date, w.start_date, w.end_date)
    IN CASE s.frequency = "monthly" -> s.amount * months
         [] s.frequency = "quarterly" -> s.amount * ((months + 2) \div 3)
         [] s.frequency = "annually" -> (s.amount * months) \div 12
         [] OTHER -> IF DateLE(w.start_date, s.start_date) /\ DateLE(s.start_date, w.end_date)
                     THEN s.amount ELSE 0

\* The user's taxable sources that overlap a window.
claimed_sources(user_id, w) ==
    {s \in db.income_sources :
        /\ s.user_id = user_id
        /\ s.is_taxable
        /\ ~DateLT(w.end_date, s.start_date)
        /\ (s.end_date = None \/ ~DateLT(s.end_date, w.start_date))}

\* C5: calculate_total_income(user, fy) is the sum, over that user's taxable
\* income sources that overlap the financial-year window, of amount x months
\* active ('monthly'), amount x quarters active ('quarterly'), amount x months
\* active / 12 ('annually'), and amount once for any other frequency when
\* start_date lies inside the window.
C5_TotalIncomeOfYear ==
    call.op = "calculate_total_income" =>
        LET w == claimed_window(call.financial_year)
        IN call.ret = SumValues([s \in claimed_sources(call.user_id, w) |->
                                    claimed_source_income(s, w)])

\* The same statement over the window the code computes: a check of the model
\* against the claim's arithmetic, apart from the window.
C5_TotalIncomeOverComputedWindow ==
    call.op = "calculate_total_income" =>
        call.ret = SumValues([s \in claimed_sources(call.user_id, call.window) |->
                                 claimed_source_income(s, call.window)])

(***************************************************************************)
(* Claims about login (SpecAuth)                                           *)
(***************************************************************************)

\* The failing check the claim names for a login, in the claim's order, or
\* "none" when a user of that email exists, is active and has that password.
first_failing_check(users, email, password) ==
    IF ~\E u \in users : u.email = email THEN "invalid_user"
    ELSE IF \E u \in users : u.email = email /\ ~u.is_active THEN "inactive_user"
    ELSE IF \E u \in users : u.email = email /\ u.hashed_password[3] # password
    THEN "invalid_password"
    ELSE "none"

\* What a step that ran login must have done.
LoginOutcome ==
    LET failing == first_failing_check(db.users, call'.email, call'.password)
    IN IF failing = "none"
       THEN /\ call'.ret = TRUE
            /\ \E u \in db.users :
                  /\ u.email = call'.email
                  /\ session'.user_id = Some(u.id)
                  /\ session'.username = Some(u.username)
            /\ session'.is_authenticated = TRUE
            /\ session'.authentication_status = Some("authenticated")
       ELSE /\ call'.ret = FALSE
            /\ session'.user_id = session.user_id
            /\ session'.username = session.username
            /\ session'.is_authenticated = session.is_authenticated
            /\ session'.authentication_status = Some(failing)
            /\ \A u \in db.users : \E v \in db'.users : v.id = u.id /\ v.last_login = u.last_login
            /\ db' = db

\* C9: login returns True and sets user_id, username, is_authenticated = True
\* and authentication_status = 'authenticated' if and only if a user with that
\* email exists, is active and the password verifies; otherwise it returns
\* False, leaves user_id, username and is_authenticated unchanged, does not
\* update last_login, and sets authentication_status to the first failing
\* check in the order 'invalid_user', 'inactive_user', 'invalid_password'.
C9_LoginOutcome == [][call'.op = "login" => LoginOutcome]_vars

\* C9 witness: a login refused for an inactive user given a wrong password,
\* after an earlier login had succeeded.
C9_Witness ==
    /\ call.op = "login"
    /\ call.ret = FALSE
    /\ session.authentication_status = Some("inactive_user")
    /\ \E u \in db.users :
          /\ u.email = call.email
          /\ ~u.is_active
          /\ u.hashed_password[3] # call.password
          /\ u.last_login # None

(***************************************************************************)
(* Claims about net worth (SpecNetWorth)                                   *)
(***************************************************************************)

\* C10: calculate_net_worth(user) returns net_worth = assets - liabilities,
\* where assets is the sum over that user's investments of current_value when
\* one is recorded (not null, a recorded 0 included) and of the purchase
\* amount otherwise, and liabilities is the sum of remaining_amount over that
\* user's debts.
C10_NetWorth ==
    call.op = "calculate_net_worth" =>
        LET mine == {i \in db.investments : i.user_id = call.user_id}
            owed == {d \in db.debts : d.user_id = call.user_id}
        IN /\ call.ret.assets =
                 SumValues([i \in mine |-> IF i.current_value = None THEN i.amount
                                           ELSE i.current_value[1]])
           /\ call.ret.liabilities = SumValues([d \in owed |-> d.remaining_amount])
           /\ call.ret.net_worth = call.ret.assets - call.ret.liabilities

(***************************************************************************)
(* Claims about the month count and the tax calendar (SpecTools)           *)
(***************************************************************************)

\* The number of calendar months that intersect [from, to]; 0 when the
\* interval is empty.
calendar_months_between(from, to) ==
    IF DateLT(to, from) THEN 0
    ELSE (to[1] - from[1]) * 12 + (to[2] - from[2]) + 1

\* C15: count_months_active counts every calendar month in which the source
\* was active for any part as a full month: it returns the number of calendar
\* months intersecting the overlap of [source_start, source_end or fy_end]
\* with [fy_start, fy_end], and 0 when the two do not overlap.
C15_CountsEveryCalendarMonth ==
    call.op = "count_months_active" =>
        LET last == IF call.source_end = None THEN call.fy_end ELSE call.source_end
            overlap_start == DateMax(call.source_start, call.fy_start)
            overlap_end == DateMin(last, call.fy_end)
        IN call.ret = calendar_months_between(overlap_start, overlap_end)

\* C16: generate_tax_timeline(fy) returns exactly six events with strictly
\* increasing dates: 15 June, 15 September and 15 December of the financial
\* year's start year, then 15 March, 31 March and 31 July of the following
\* calendar year.
C16_TimelineOfFinancialYear ==
    call.op = "generate_tax_timeline" =>
        LET yyyy == int(split(call.financial_year, "-")[1])
        IN /\ Len(call.ret) = 6
           /\ [i \in 1..6 |-> call.ret[i].date] =
                 << date(yyyy, 6, 15), date(yyyy, 9, 15), date(yyyy, 12, 15),
                    date(yyyy + 1, 3, 15), date(yyyy + 1, 3, 31), date(yyyy + 1, 7, 31) >>
           /\ \A i \in 1..5 : DateLT(call.ret[i].date, call.ret[i + 1].date)

\* C17: in the calendar view every event of the generated timeline is listed
\* under exactly one month selection, the month of its date.
C17_EveryEventHasItsMonth ==
    call.op = "show_tax_timeline_tab" =>
        \A i \in 1..Len(call.timeline) :
            LET event == call.timeline[i]
                listed == {m \in DOMAIN months_by_name :
                              \E j \in 1..Len(month_events(call.timeline, call.selected_year, m)) :
                                  month_events(call.timeline, call.selected_year, m)[j] = event}
            IN /\ Cardinality(listed) = 1
               /\ \A m \in listed : months_by_name[m] = event.date[2]

\* C14: for principal > 0, rate >= 0 and tenure_months >= 1 the schedule has
\* exactly tenure_months entries numbered 1..tenure_months in order; in every
\* entry principal_payment + interest_payment = emi and interest_payment is
\* the principal outstanding before the payment times rate/1200;
\* remaining_principal is never negative and never increases; at rate 0 the
\* EMI is principal / tenure_months and every interest payment is 0;
\* total_payment = emi x tenure_months and total_interest = total_payment -
\* principal.
C14_AmortizationSchedule ==
    call.op = "calculate_loan_amortization" =>
        LET r == call.ret
            s == r.amortization_schedule
            n == call.tenure_months
            before(i) == IF i = 1 THEN FromInt(call.principal)
                         ELSE s[i - 1].remaining_principal
        IN /\ Len(s) = n
           /\ \A i \in 1..Len(s) :
                 /\ s[i].month = i
                 /\ s[i].emi = r.emi
                 /\ RatAdd(s[i].principal_payment, s[i].interest_payment) = r.emi
                 /\ s[i].interest_payment = RatMul(before(i), Rat(call.rate, 1200))
                 /\ RatLE(FromInt(0), s[i].remaining_principal)
                 /\ RatLE(s[i].remaining_principal, before(i))
           /\ call.rate = 0 =>
                 /\ r.emi = Rat(call.principal, n)
                 /\ \A i \in 1..Len(s) : s[i].interest_payment = FromInt(0)
           /\ r.total_payment = RatMul(r.emi, FromInt(n))
           /\ r.total_interest = RatSub(r.total_payment, FromInt(call.principal))

\* A loan at a positive rate over several months, repaid in full by the last
\* entry, the interest falling from one entry to the next.
C14_Witness ==
    /\ call.op = "calculate_loan_amortization"
    /\ call.rate > 0
    /\ call.tenure_months >= 2
    /\ LET s == call.ret.amortization_schedule
       IN /\ Len(s) = call.tenure_months
          /\ s[Len(s)].remaining_principal = FromInt(0)
          /\ RatLT(s[2].interest_payment, s[1].interest_payment)
          /\ RatLT(FromInt(0), call.ret.total_interest)

(***************************************************************************)
(* Claims about the savings rate and the health score (SpecHealth)         *)
(***************************************************************************)

\* C11: calculate_savings_rate returns 0 when the month's income is 0 and
\* otherwise max(0, (income - expenses) / income x 100); for non-negative
\* income and expense amounts the result lies in [0, 100].
C11_SavingsRate ==
    call.op = "calculate_savings_rate" =>
        LET rate == RatMul(RatDiv(RatSub(call.income, call.expenses), call.income),
                           FromInt(100))
        IN /\ call.income = FromInt(0) => call.ret = FromInt(0)
           /\ call.income # FromInt(0) =>
                 call.ret = (IF RatLE(FromInt(0), rate) THEN rate ELSE FromInt(0))
           /\ RatLE(FromInt(0), call.income) /\ RatLE(FromInt(0), call.expenses) =>
                 RatLE(FromInt(0), call.ret) /\ RatLE(call.ret, FromInt(100))

\* A month whose expenses exceed its income, the income fractional (a third
\* of a quarterly or a twelfth of an annual amount among it).
C11_Witness ==
    /\ call.op = "calculate_savings_rate"
    /\ RatLT(FromInt(0), call.income)
    /\ RatLT(call.income, call.expenses)
    /\ call.ret = FromInt(0)
    /\ \E s \in db.income_sources :
           s.user_id = call.user_id /\ s.frequency \in {"quarterly", "annually"}

\* C12: overall_score = 0.3 x savings_score + 0.3 x dti_score + 0.4 x
\* emergency_fund_score with savings_score = min(100, savings_rate/20 x 100),
\* dti_score = max(0, 100 - dti_ratio/36 x 100) (0 when monthly income is 0)
\* and emergency_fund_score = min(100, months_covered/6 x 100); for
\* non-negative recorded amounts 0 <= overall_score <= 100; status is
\* 'Excellent' for >= 80, 'Good' for >= 60, 'Fair' for >= 40, else 'Needs
\* Improvement'.
C12_FinancialHealthScore ==
    call.op = "calculate_financial_health_score" =>
        LET r == call.ret
            hundred == FromInt(100)
            by_rate == RatMul(RatDiv(r.savings_rate.value, FromInt(20)), hundred)
            by_months == RatMul(RatDiv(r.emergency_fund.months_covered, FromInt(6)), hundred)
            by_dti == RatSub(hundred, RatMul(RatDiv(r.debt_to_income.value, FromInt(36)),
                                             hundred))
            weighted == RatAdd(RatAdd(RatMul(Rat(3, 10), r.savings_rate.score),
                                      RatMul(Rat(3, 10), r.debt_to_income.score)),
                               RatMul(Rat(4, 10), r.emergency_fund.score))
        IN /\ r.savings_rate.score = (IF RatLE(by_rate, hundred) THEN by_rate ELSE hundred)
           /\ call.monthly_income = FromInt(0) => r.debt_to_income.score = FromInt(0)
           /\ call.monthly_income # FromInt(0) =>
                 r.debt_to_income.score =
                     (IF RatLE(FromInt(0), by_dti) THEN by_dti ELSE FromInt(0))
           /\ r.emergency_fund.score =
                 (IF RatLE(by_months, hundred) THEN by_months ELSE hundred)
           /\ r.overall_score = weighted
           /\ RatLE(FromInt(0), r.overall_score) /\ RatLE(r.overall_score, hundred)
           /\ r.status = (IF RatLE(FromInt(80), r.overall_score) THEN "Excellent"
                          ELSE IF RatLE(FromInt(60), r.overall_score) THEN "Good"
                          ELSE IF RatLE(FromInt(40), r.overall_score) THEN "Fair"
                          ELSE "Needs Improvement")

\* A user with income, expenses of the last 90 days and an emergency fund
\* covering more than six months of them: the emergency fund score is capped
\* at 100 and the three components are all positive.
C12_Witness ==
    /\ call.op = "calculate_financial_health_score"
    /\ RatLT(FromInt(0), call.monthly_income)
    /\ RatLT(FromInt(6), call.ret.emergency_fund.months_covered)
    /\ call.ret.emergency_fund.score = FromInt(100)
    /\ RatLT(FromInt(0), call.ret.savings_rate.score)
    /\ RatLT(FromInt(0), call.ret.debt_to_income.score)
    /\ RatLT(FromInt(40), call.ret.overall_score)

(***************************************************************************)
(* Claims about spending anomalies (SpecAnomalies)                         *)
(***************************************************************************)

\* The monthly totals of a user's spending in one category over the last 180
\* days before the day of the call, as a function of <<year, month>>.
monthly_totals(user_id, category, today) ==
    LET spent == {e \in db.expenses :
                     /\ e.user_id = user_id
                     /\ e.category = category
                     /\ DateLE(DateMinusDays(today, 180), e.date)
                     /\ DateLE(e.date, today)}
    IN [m \in {<<e.date[1], e.date[2]>> : e \in spent} |->
           SumValues([e \in {x \in spent : <<x.date[1], x.date[2]>> = m} |-> e.amount])]

\* The current-month total lies more than k population standard deviations
\* above the mean of the monthly totals.  With n totals of sum S and sum of
\* squares Q, the mean is S/n and the variance (n Q - S^2)/n^2, so the test
\* is n x current - S > 0 and (n x current - S)^2 > k^2 (n Q - S^2).
above_mean_by(totals, current, k) ==
    LET n == Cardinality(DOMAIN totals)
        S == SumValues(totals)
        Q == SumValues([m \in DOMAIN totals |-> totals[m] * totals[m]])
    IN /\ n * current - S > 0
       /\ (n * current - S) * (n * current - S) > k * k * (n * Q - S * S)

claimed_anomalous(user_id, category, today) ==
    LET totals == monthly_totals(user_id, category, today)
        this_month == <<today[1], today[2]>>
    IN /\ Cardinality(DOMAIN totals) >= 3
       /\ this_month \in DOMAIN totals
       /\ above_mean_by(totals, totals[this_month], 2)

\* C13: detect_spending_anomalies reports a category if and only if it has
\* spending in at least 3 distinct months of the last 180 days, has spending
\* in the current month, and the current-month total lies more than 2
\* population standard deviations above the mean of its monthly totals;
\* severity is 'high' when it lies more than 3 standard deviations above and
\* 'medium' otherwise; a category whose monthly totals are all equal is never
\* reported.
C13_AnomalyReported ==
    call.op = "detect_spending_anomalies" =>
        LET categories == {e.category : e \in db.expenses}
            today == call.current_date
        IN /\ {a.category : a \in call.ret} =
                 {c \in categories : claimed_anomalous(call.user_id, c, today)}
           /\ Cardinality(call.ret) = Cardinality({a.category : a \in call.ret})
           /\ \A a \in call.ret :
                 LET totals == monthly_totals(call.user_id, a.category, today)
                 IN /\ a.severity =
                          (IF above_mean_by(totals, totals[<<today[1], today[2]>>], 3)
                           THEN "high" ELSE "medium")
                    /\ \E m \in DOMAIN totals : totals[m] # a.amount

\* A category with six months of spending whose current month stands out is
\* reported; another category of the same user, recorded in the current
\* month only, is not.
C13_Witness ==
    /\ call.op = "detect_spending_anomalies"
    /\ call.user_id = 1
    /\ \E a \in call.ret : a.category = "Food" /\ a.amount = 900 /\ a.severity = "medium"
    /\ Cardinality(call.ret) = 1
    /\ \E e \in db.expenses : e.category = "Rent" /\ e.user_id = 1


(***************************************************************************)
(* Claims about the record accessors (SpecRecords)                         *)
(***************************************************************************)

\* The record of the table with this id that belongs to user_id, if any.
owned_by(database, table, row_id, user_id) ==
    {r \in database[table] : r.id = row_id /\ r.user_id = user_id}

behind_login(e) == e.kind \in {"content", "read", "write"}

\* C19: while is_authenticated is false a run of the app shows only the
\* login and register forms, and a page function stops at require_auth's
\* warning before any record is read or written; page content is produced
\* only in a run where is_authenticated is true.
C19_AuthenticationFirst ==
    [][call'.op \in {"main", "page"} =>
         LET events == call'.events
         IN /\ ~session.is_authenticated =>
                  /\ db' = db
                  /\ call'.op = "main" =>
                        events = <<run_event("login_form", "", 0), run_event("register_form", "", 0)>>
                  /\ call'.op = "page" => events = <<run_event("warning", "", 0)>>
            /\ (\E i \in 1..Len(events) : behind_login(events[i])) =>
                  session.is_authenticated
            /\ session.is_authenticated /\ call'.op = "page" =>
                  \E i \in 1..Len(events) : events[i].kind = "content"
    ]_vars

\* A page function was called with its form submitted while nobody was
\* logged in, and the run stopped at the warning.
C19_Witness ==
    /\ call.op = "page"
    /\ call.page = "Budget"
    /\ call.submitted
    /\ ~session.is_authenticated
    /\ call.events = <<run_event("warning", "", 0)>>


(***************************************************************************)
(* Claims about the registration form (SpecRegister)                       *)
(***************************************************************************)

\* The k-th check of a submitted form in the claimed order: whether the form
\* passes it, and the messages that report its failure.
registration_check(database, form, k) ==
    CASE k = 1 ->
           [passes |-> /\ form.email # << >>
                       /\ form.username # << >>
                       /\ form.password # << >>
                       /\ form.confirm_password # << >>,
            reports |-> {"Please fill in all required fields"}]
      [] k = 2 ->
           [passes |-> is_valid_email(form.email),
            reports |-> {"Please enter a valid email address"}]
      [] k = 3 ->
           [passes |-> ~\E u \in database.users : u.email = form.email,
            reports |-> {"Email already registered. Please use a different email or login"}]
      [] k = 4 ->
           [passes |-> ~\E u \in database.users : u.username = form.username,
            reports |-> {"Username already taken. Please choose a different username"}]
      [] k = 5 ->
           [passes |-> /\ Len(form.password) >= 8
                       /\ \E i \in 1..Len(form.password) : form.password[i] \in ascii_uppercase
                       /\ \E i \in 1..Len(form.password) : form.password[i] \in ascii_lowercase
                       /\ \E i \in 1..Len(form.password) : form.password[i] \in ascii_digits,
            reports |-> {"Password must be at least 8 characters long",
                         "Password must contain at least one uppercase letter",
                         "Password must contain at least one lowercase letter",
                         "Password must contain at least one number"}]
      [] k = 6 ->
           [passes |-> form.password = form.confirm_password,
            reports |-> {"Passwords do not match"}]
      [] k = 7 ->
           [passes |-> \/ form.pan = << >>
                       \/ /\ Len(form.pan) = 10
                          /\ \A i \in 1..10 :
                                form.pan[i] \in (IF i \in 6..9 THEN ascii_digits
                                                 ELSE ascii_uppercase),
            reports |-> {"PAN should be in the format AAAAA0000A"}]
      [] k = 8 ->
           [passes |-> \/ form.aadhar = << >>
                       \/ /\ Len(form.aadhar) = 12
                          /\ \A i \in 1..12 : form.aadhar[i] \in ascii_digits,
            reports |-> {"Aadhar should be a 12-digit number"}]

\* The first check from the k-th on that the form fails, 0 if it passes all.
RECURSIVE first_failed_check(_, _, _)
first_failed_check(database, form, k) ==
    IF k > 8 THEN 0
    ELSE IF ~registration_check(database, form, k).passes THEN k
    ELSE first_failed_check(database, form, k + 1)

\* C20: a submitted registration form creates a user only when it passes all
\* the checks: required fields non-empty, email well-formed, email not yet
\* registered, username not yet taken, password of 8 characters or more with
\* an uppercase letter, a lowercase letter and a digit, password equal to its
\* confirmation, PAN empty or of the form AAAAA0000A, Aadhar empty or of
\* exactly 12 digits.  Otherwise the first check it fails, in this order, is
\* the one reported, and nothing is stored.
C20_RegistrationChecksInOrder ==
    [][call'.op = "register" =>
         LET failed == first_failed_check(db, call', 1)
         IN IF failed = 0
            THEN TRUE
            ELSE /\ db' = db
                 /\ session' = session
                 /\ call'.ret \in registration_check(db, call', failed).reports
    ]_vars

\* A form with a registered email and a password that is too short was
\* submitted, and the registered email is what was reported.
C20_Witness ==
    /\ call.op = "register"
    /\ {k \in 1..8 : ~registration_check(db, call, k).passes} = {3, 5}
    /\ call.ret = "Email already registered. Please use a different email or login"
    /\ Cardinality(db.users) = 1


(***************************************************************************)
(* Claims about the SIP calculator (SpecTools)                             *)
(***************************************************************************)

\* C22: calculate_sip_returns returns a result, never raising, for every
\* monthly_investment > 0, tenure_years >= 1 and expected_return_rate >= 0,
\* with total_invested = monthly_investment x 12 x tenure_years and
\* wealth_gained = future_value - total_invested; at a 0% expected return
\* future_value equals total_invested.
C22_SipReturns ==
    (/\ call.op = "calculate_sip_returns"
     /\ call.monthly_investment > 0
     /\ call.tenure_years >= 1
     /\ call.expected_return_rate >= 0) =>
        /\ call.raised = ""
        /\ call.ret # None
        /\ call.ret[1].total_invested
              = FromInt(call.monthly_investment * 12 * call.tenure_years)
        /\ call.ret[1].wealth_gained
              = RatSub(call.ret[1].future_value, call.ret[1].total_invested)
        /\ call.expected_return_rate = 0 =>
              call.ret[1].future_value = call.ret[1].total_invested


(***************************************************************************)
(* Claims about the Add New Investment form (SpecInvestments)              *)
(***************************************************************************)

\* C21: submitting the Add New Investment form with a non-empty name and an
\* initial amount > 0 stores a new investment for the user, whose
\* current_value is the entered current value when that is > 0 and the
\* initial amount otherwise, and reports 'Investment added successfully!'.
C21_InvestmentAdded ==
    [][(/\ call'.op = "add_investment_form"
        /\ call'.name # ""
        /\ call'.amount > 0) =>
           /\ call'.message = "Investment added successfully!"
           /\ \E i \in db'.investments \ db.investments :
                 /\ db'.investments = db.investments \cup {i}
                 /\ i.user_id = session.user_id[1]
                 /\ i.amount = call'.amount
                 /\ i.current_value = Some(IF call'.current_value > 0
                                           THEN call'.current_value
                                           ELSE call'.amount)
    ]_vars

====
